---- MODULE Spec2Model ----
(***************************************************************************)
(* A model of the node agent's rule-engine core (kubescape node-agent):    *)
(* the container lifecycle tracker and event dispatcher of the rule        *)
(* manager (pkg/rulemanager/v1/rule_manager.go), the rule evaluators       *)
(* R0006, R1002, R1003 and R1012 (pkg/ruleengine/v1), the exporters, the   *)
(* application profile cache and the network manager (pkg/networkmanager). *)
(*                                                                         *)
(* The specifications share the variables:                                 *)
(*   Spec, FairSpec   the lifecycle tracker                                *)
(*   SpecDispatch     the event dispatcher beside one container session    *)
(*   SpecProcessEvent the dispatcher's loop over the rules of an exec event *)
(*   SpecRetry        the back-off retry loops and the root context        *)
(*   SpecR0006        the service-account-token evaluator                  *)
(*   SpecR1003        the malicious-SSH evaluator                          *)
(*   SpecR1003Ports   the malicious-SSH evaluator with one allowed port    *)
(*   SpecR1003Race    the malicious-SSH evaluator under two calling tasks  *)
(*   SpecR1002        the kernel-module-load evaluator                     *)
(*   SpecHTTPInit     the construction of the HTTP exporter                *)
(*   SpecHTTP         the HTTP exporter's rate limit                       *)
(*   SpecBus          the exporter bus                                     *)
(*   SpecCache        the application profile cache                        *)
(*   FairSpecShutdown the lifecycle tracker and the root context           *)
(*   SpecR1012        the hardlink evaluator                               *)
(*   SpecNet, FairSpecNet  the network manager                             *)
(***************************************************************************)
EXTENDS Integers, Sequences, FiniteSets, TLC

VARIABLES
    trackedContainers,        \* RuleManager.trackedContainers: set of k8sContainerID
    watchedContainerChannels, \* RuleManager.watchedContainerChannels: ContainerID -> channel
    sessions,                 \* the goroutines started by "go rm.startRuleManager"
    removeDelivered,          \* history: sessions whose runtime id got a remove notification
    lastReport,               \* history: the last Report* callback and its arguments
    calls,                    \* history: the ProcessEvent calls made by the last Report*
    effects,                  \* history: what the last Report* did, call by call
    fed,                      \* history: evaluator -> the containers whose events it got
    waiting,                  \* the callbacks inside waitForContainer's retry loop
    instanceIDBackoff,        \* session -> the retries of its ensureInstanceID loop
    ctxCancelled,             \* the root context (RuleManager.ctx) is cancelled
    r1003Tasks,               \* the ProcessEvent executions of rule1003 in progress
    r0006Call,                \* the last R0006 ProcessEvent call: its arguments and result
    rule1003,                 \* the fields of one R1003MaliciousSSHConnection evaluator
    r1003Call,                \* the last R1003 ProcessEvent call: its arguments and result
    r1003Params,              \* history: the argument of SetParameters, the last call being it
    r1002Call,                \* the last R1002 ProcessEvent call: its arguments and result
    httpExporter,             \* the HTTPExporter InitHTTPExporter returned (Nil before)
    httpInit,                 \* the last InitHTTPExporter call: its config and its error
    httpNow,                  \* the clock the HTTP exporter reads
    httpLog,                  \* history: the alerts handed to the HTTP exporter and what it sent
    exporterBus,              \* the ExporterBus InitExporters returned (Nil before)
    busSend,                  \* history: the last alert sent on the bus and who received it
    podToSlug,                \* ApplicationProfileCacheImpl.podToSlug: pod -> slug
    slugToAppProfile,         \* ApplicationProfileCacheImpl.slugToAppProfile: slug -> profile
    slugToPods,               \* ApplicationProfileCacheImpl.slugToPods: slug -> set of pods
    allProfiles,              \* ApplicationProfileCacheImpl.allProfiles: set of slugs
    clusterProfiles,          \* history: the profiles the watch reported and did not delete
    cacheEvent,               \* history: the last watch event the cache handled
    cacheLookup,              \* history: the last GetApplicationProfile call since then
    rule1012,                 \* the fields of one R1012HardlinkCreatedOverSensitiveFile evaluator
    r1012Call,                \* the last R1012 ProcessEvent call: its arguments and result
    r1012Added,               \* history: the paths the additionalPaths parameters named
    amWatchedContainerChannels, \* NetworkManager.watchedContainerChannels: ContainerID -> channel
    containerAndPodToWLIDMap, \* NetworkManager.containerAndPodToWLIDMap
    containerAndPodToEventsMap, \* NetworkManager.containerAndPodToEventsMap
    amCallbacks,              \* the add callbacks of the network manager that were started
    amSavers,                 \* the SaveNetworkEvent calls in progress
    amSaved,                  \* history: container -> the events SaveNetworkEvent was handed
    amRead,                   \* history: container -> what handleNetworkEvents read last
    amRemoved                 \* history: the runtime ids a remove notification named

vars == <<trackedContainers, watchedContainerChannels, sessions, removeDelivered,
          lastReport, calls, effects, fed, waiting, instanceIDBackoff, ctxCancelled,
          r0006Call, rule1003, r1003Call, r1003Tasks, r1002Call,
          httpExporter, httpInit, httpNow, httpLog, exporterBus, busSend,
          podToSlug, slugToAppProfile, slugToPods, allProfiles, clusterProfiles,
          cacheEvent, cacheLookup, r1003Params, rule1012, r1012Call, r1012Added,
          amWatchedContainerChannels, containerAndPodToWLIDMap,
          containerAndPodToEventsMap, amCallbacks, amSavers, amSaved, amRead, amRemoved>>

lifecycleVars == <<trackedContainers, watchedContainerChannels, sessions, removeDelivered>>
dispatchVars == <<lastReport, calls, effects, fed>>
retryVars == <<waiting, instanceIDBackoff, ctxCancelled>>
raceVars == <<r1003Tasks>>
r0006Vars == <<r0006Call>>
r1003Vars == <<rule1003, r1003Call, r1003Params>>
r1002Vars == <<r1002Call>>

\* The variables of the components beside the tracker, the dispatcher, R0006 and R1003
httpVars == <<httpExporter, httpInit, httpNow, httpLog>>
busVars == <<exporterBus, busSend>>
cacheVars == <<podToSlug, slugToAppProfile, slugToPods, allProfiles, clusterProfiles,
               cacheEvent, cacheLookup>>
r1012Vars == <<rule1012, r1012Call, r1012Added>>
netVars == <<amWatchedContainerChannels, containerAndPodToWLIDMap, containerAndPodToEventsMap,
             amCallbacks, amSavers, amSaved, amRead, amRemoved>>
laterVars == <<retryVars, raceVars, r1002Vars, httpVars, busVars, cacheVars, r1012Vars, netVars>>

(***************************************************************************)
(* Bounds of the model.                                                    *)
(***************************************************************************)
MaxSessions == 3          \* sessions spawned in Spec and FairSpec
MaxRules == 2             \* length of the list ListRulesForPod returns
MaxPortEntries == 2       \* length of the allowedPorts parameter list

\* A nil pointer / nil interface value; records of other shapes are non-nil.
Nil == [nil |-> TRUE]

(***************************************************************************)
(* Container lifecycle tracker                                             *)
(***************************************************************************)

\* utils.CreateK8sContainerID: strings.Join({ns, pod, container}, "/")
CreateK8sContainerID(namespaceName, podName, containerName) ==
    namespaceName \o "/" \o podName \o "/" \o containerName

\* The containers the pub/sub stream reports: runtime id r1, and r2, the same
\* container of the same pod after a restart (new runtime id, same workload key).
Containers ==
    { [ContainerID |-> "r1", Namespace |-> "ns", PodName |-> "pod", ContainerName |-> "app"],
      [ContainerID |-> "r2", Namespace |-> "ns", PodName |-> "pod", ContainerName |-> "app"] }

ContainerIDs == { c.ContainerID : c \in Containers }

K8sContainerIDOf(c) == CreateK8sContainerID(c.Namespace, c.PodName, c.ContainerName)

\* maps.SafeMap.Has / Get / Set / Delete on a map modelled as a function
Has(m, k) == k \in DOMAIN m
Get(m, k) == IF k \in DOMAIN m THEN m[k] ELSE 0
Set(m, k, v) == [x \in DOMAIN m \cup {k} |-> IF x = k THEN v ELSE m[x]]
Delete(m, k) == [x \in DOMAIN m \ {k} |-> m[x]]

\* A session is one run of startRuleManager. Its channel is identified by the
\* session's index; SyncChannel is the number of sentinels queued on it.
NewSession(c) ==
    [ContainerID |-> c.ContainerID, K8sContainerID |-> K8sContainerIDOf(c),
     pc |-> "start", SyncChannel |-> 0]

Live(s) == s \in DOMAIN sessions /\ sessions[s].pc # "done"

LiveSessionsOf(id) == { s \in DOMAIN sessions : sessions[s].ContainerID = id /\ Live(s) }

\* ContainerCallback, case EventTypeAddContainer
ContainerCallbackAdd(c) ==
    /\ IF Has(watchedContainerChannels, c.ContainerID)
       THEN UNCHANGED <<trackedContainers, sessions>>
       ELSE /\ trackedContainers' = trackedContainers \cup {K8sContainerIDOf(c)}
            /\ sessions' = Append(sessions, NewSession(c))
    /\ UNCHANGED <<watchedContainerChannels, removeDelivered>>
    /\ UNCHANGED <<dispatchVars, r0006Vars, r1003Vars, laterVars>>

\* A remove branch that also drops the workload key from the tracked set.
ContainerCallbackRemoveUntracking(c) ==
    LET channel == Get(watchedContainerChannels, c.ContainerID) IN
    /\ sessions' = IF channel # 0
                   THEN [sessions EXCEPT ![channel].SyncChannel = @ + 1]
                   ELSE sessions
    /\ watchedContainerChannels' = Delete(watchedContainerChannels, c.ContainerID)
    /\ removeDelivered' = removeDelivered \cup LiveSessionsOf(c.ContainerID)
    /\ trackedContainers' = trackedContainers \ {K8sContainerIDOf(c)}
    /\ UNCHANGED <<dispatchVars, r0006Vars, r1003Vars, laterVars>>

\* ContainerCallback, case EventTypeRemoveContainer
ContainerCallbackRemove(c) ==
    LET channel == Get(watchedContainerChannels, c.ContainerID) IN
    /\ sessions' = IF channel # 0
                   THEN [sessions EXCEPT ![channel].SyncChannel = @ + 1]
                   ELSE sessions
    /\ watchedContainerChannels' = Delete(watchedContainerChannels, c.ContainerID)
    /\ removeDelivered' = removeDelivered \cup LiveSessionsOf(c.ContainerID)
    /\ UNCHANGED trackedContainers
    /\ UNCHANGED <<dispatchVars, r0006Vars, r1003Vars, laterVars>>

\* startRuleManager, lines 90-91: make the channel and register it
StartRuleManager(s) ==
    /\ s \in DOMAIN sessions /\ sessions[s].pc = "start"
    /\ watchedContainerChannels' = Set(watchedContainerChannels, sessions[s].ContainerID, s)
    /\ sessions' = [sessions EXCEPT ![s].pc = "ensureInstanceID"]
    /\ UNCHANGED <<trackedContainers, removeDelivered>>
    /\ UNCHANGED <<dispatchVars, r0006Vars, r1003Vars, laterVars>>

\* startRuleManager, lines 102-110: backoff.Retry(ensureInstanceID) ends with the
\* instance id resolved or with an error; the error is only logged and nothing
\* the tracker keeps depends on the outcome.
EnsureInstanceID(s) ==
    /\ s \in DOMAIN sessions /\ sessions[s].pc = "ensureInstanceID"
    /\ sessions' = [sessions EXCEPT ![s].pc = "monitor"]
    /\ UNCHANGED <<trackedContainers, watchedContainerChannels, removeDelivered>>
    /\ UNCHANGED <<dispatchVars, r0006Vars, r1003Vars, laterVars>>

\* monitorContainer: a receive on SyncChannel; the only value ever sent is
\* ContainerHasTerminatedError, on which the loop returns.
MonitorContainer(s) ==
    /\ s \in DOMAIN sessions /\ sessions[s].pc = "monitor"
    /\ sessions[s].SyncChannel > 0
    /\ sessions' = [sessions EXCEPT ![s].pc = "deleteResources", ![s].SyncChannel = @ - 1]
    /\ UNCHANGED <<trackedContainers, watchedContainerChannels, removeDelivered>>
    /\ UNCHANGED <<dispatchVars, r0006Vars, r1003Vars, laterVars>>

\* deleteResources, line 129: trackedContainers.Remove
DeleteResourcesUntrack(s) ==
    /\ s \in DOMAIN sessions /\ sessions[s].pc = "deleteResources"
    /\ trackedContainers' = trackedContainers \ {sessions[s].K8sContainerID}
    /\ sessions' = [sessions EXCEPT ![s].pc = "deleteChannel"]
    /\ UNCHANGED <<watchedContainerChannels, removeDelivered>>
    /\ UNCHANGED <<dispatchVars, r0006Vars, r1003Vars, laterVars>>

\* deleteResources, line 130: watchedContainerChannels.Delete
DeleteResourcesChannel(s) ==
    /\ s \in DOMAIN sessions /\ sessions[s].pc = "deleteChannel"
    /\ watchedContainerChannels' = Delete(watchedContainerChannels, sessions[s].ContainerID)
    /\ sessions' = [sessions EXCEPT ![s].pc = "done"]
    /\ UNCHANGED <<trackedContainers, removeDelivered>>
    /\ UNCHANGED <<dispatchVars, r0006Vars, r1003Vars, laterVars>>

\* One step of the goroutine of session s
TaskStep(s) ==
    \/ StartRuleManager(s)
    \/ EnsureInstanceID(s)
    \/ MonitorContainer(s)
    \/ DeleteResourcesUntrack(s)
    \/ DeleteResourcesChannel(s)


(***************************************************************************)
(* Event dispatcher                                                        *)
(***************************************************************************)

\* utils.EventType values handed to processEvent and to the evaluators
ExecveEventType == "exec"
OpenEventType == "open"
NetworkEventType == "network"
DnsEventType == "dns"
CapabilitiesEventType == "capability"

\* The evaluators ListRulesForPod may return, each with the RequiredEventTypes of
\* its Requirements(): the two evaluators modelled below and one for exec events.
RuleR0006 == [ID |-> "R0006", RequiredEventTypes |-> <<OpenEventType>>]
RuleR1003 == [ID |-> "R1003", RequiredEventTypes |-> <<OpenEventType, NetworkEventType>>]
RuleExec == [ID |-> "R0001", RequiredEventTypes |-> <<ExecveEventType>>]

RuleEvaluators == {Nil, RuleR0006, RuleR1003, RuleExec}

\* The slices ListRulesForPod may return (nil entries included)
RuleLists == UNION { [1..n -> RuleEvaluators] : n \in 0..MaxRules }

\* The slices of at most one entry, for the callbacks that have an empty body
ShortRuleLists == { rules \in RuleLists : Len(rules) <= 1 }

\* An isRelevant that lets every event type through
isRelevantAlways(ruleSpec, eventType) == TRUE

\* isRelevant: the event type is one of the rule's RequiredEventTypes
isRelevant(ruleSpec, eventType) ==
    \E i \in 1..Len(ruleSpec.RequiredEventTypes) : ruleSpec.RequiredEventTypes[i] = eventType

\* What a rule's ProcessEvent does on one event: it returns nil, it returns a
\* rule failure, or it panics
Results == {"nil", "failure", "panic"}

\* One result for each entry of a rule list; the entries processEvent passes
\* over (nil entries, rules not declaring the event type) have "nil"
ResultLists(eventType, rules) ==
    { results \in [1..Len(rules) -> Results] :
        \A i \in 1..Len(rules) :
            IF rules[i] = Nil THEN results[i] = "nil"
            ELSE IF isRelevant(rules[i], eventType) THEN TRUE
            ELSE results[i] = "nil" }

\* processEvent, lines 268-275: what follows a ProcessEvent call that returned
\* res; ReportRuleProcessed stands after the if/else and runs in both cases
processEventAfterCall(rule, res) ==
    IF res = "failure"
    THEN <<[call |-> "SendRuleAlert", rule |-> rule, res |-> res],
           [call |-> "ReportRuleAlert", rule |-> rule, res |-> res],
           [call |-> "ReportRuleProcessed", rule |-> rule, res |-> res]>>
    ELSE <<[call |-> "ReportRuleProcessed", rule |-> rule, res |-> res]>>

\* processEvent: what the loop over rules[from..] does, call by call. A rule is
\* named by its index in the list. The function has no recover: a panic of
\* ProcessEvent ends the loop and leaves through processEvent to its caller.
RECURSIVE processEventFrom(_, _, _, _)
processEventFrom(eventType, rules, results, from) ==
    IF from > Len(rules) THEN <<>>
    ELSE IF rules[from] = Nil THEN processEventFrom(eventType, rules, results, from + 1)
    ELSE IF ~isRelevant(rules[from], eventType)
    THEN processEventFrom(eventType, rules, results, from + 1)
    ELSE IF results[from] = "panic"
    THEN <<[call |-> "ProcessEvent", rule |-> from, res |-> "panic"],
           [call |-> "panic", rule |-> from, res |-> "panic"]>>
    ELSE <<[call |-> "ProcessEvent", rule |-> from, res |-> results[from]]>>
         \o processEventAfterCall(from, results[from])
         \o processEventFrom(eventType, rules, results, from + 1)

processEvent(eventType, rules, results) == processEventFrom(eventType, rules, results, 1)

\* The ProcessEvent calls among what processEvent did, each recorded by the
\* index of its rule in the list and the event type
ProcessEventCalls(eventType, done) ==
    LET picked == SelectSeq(done, LAMBDA d : d.call = "ProcessEvent") IN
    [i \in 1..Len(picked) |-> [rule |-> picked[i].rule, eventType |-> eventType]]

Report(callback, eventType, k8sContainerID, rules) ==
    [callback |-> callback, eventType |-> eventType, k8sContainerID |-> k8sContainerID,
     tracked |-> k8sContainerID \in trackedContainers, rules |-> rules]

K8sContainerIDs == { K8sContainerIDOf(c) : c \in Containers }

\* The containers whose events the gadgets report: the container of the
\* lifecycle stream and a second container of the same pod
EventContainers ==
    { [Namespace |-> "ns", PodName |-> "pod", ContainerName |-> "app"],
      [Namespace |-> "ns", PodName |-> "pod", ContainerName |-> "sidecar"] }

EventKeys == { K8sContainerIDOf(c) : c \in EventContainers }

\* The container an event with this workload key comes from
EventContainer(k8sContainerID) ==
    CHOOSE c \in EventContainers : K8sContainerIDOf(c) = k8sContainerID

\* ruleBindingCache.ListRulesForPod(namespace, pod): the evaluator the binding
\* cache hands out for a rule is the one it keeps for that pod; the call names
\* the pod and nothing of the container.
ListRulesForPodEvaluator(namespace, podName, rule) ==
    [pod |-> namespace \o "/" \o podName, ID |-> rule.ID]

\* The evaluators whose ProcessEvent the calls reached
EvaluatorsCalled(k8sContainerID, rules, made) ==
    { ListRulesForPodEvaluator(EventContainer(k8sContainerID).Namespace,
                               EventContainer(k8sContainerID).PodName,
                               rules[made[i].rule]) : i \in DOMAIN made }

\* fed, after the evaluators in called got an event of the container
Feed(called, k8sContainerID) ==
    [e \in DOMAIN fed \cup called |->
        (IF e \in DOMAIN fed THEN fed[e] ELSE {})
        \cup (IF e \in called THEN {k8sContainerID} ELSE {})]

\* ReportFileExec: list the rules of the event's pod and process the event.
\* rules is what ruleBindingCache.ListRulesForPod returns for the pod, results
\* what each rule's ProcessEvent does on the event.
ReportFileExec(k8sContainerID, rules, results) ==
    LET done == processEvent(ExecveEventType, rules, results)
        made == ProcessEventCalls(ExecveEventType, done)
    IN
    /\ lastReport' = Report("ReportFileExec", ExecveEventType, k8sContainerID, rules)
    /\ calls' = made
    /\ effects' = done
    /\ fed' = Feed(EvaluatorsCalled(k8sContainerID, rules, made), k8sContainerID)
    /\ UNCHANGED <<lifecycleVars, r0006Vars, r1003Vars, laterVars>>

\* ReportFileOpen, from the call to its return: waitForContainer, then nothing
\* ("process file open" is a comment)
ReportFileOpen(k8sContainerID, rules) ==
    /\ lastReport' = Report("ReportFileOpen", OpenEventType, k8sContainerID, rules)
    /\ calls' = <<>>
    /\ effects' = <<>>
    /\ UNCHANGED fed
    /\ UNCHANGED <<lifecycleVars, r0006Vars, r1003Vars, laterVars>>

\* ReportCapability, from the call to its return: waitForContainer, then nothing
ReportCapability(k8sContainerID, rules) ==
    /\ lastReport' = Report("ReportCapability", CapabilitiesEventType, k8sContainerID, rules)
    /\ calls' = <<>>
    /\ effects' = <<>>
    /\ UNCHANGED fed
    /\ UNCHANGED <<lifecycleVars, r0006Vars, r1003Vars, laterVars>>

\* ReportNetworkEvent: noop
ReportNetworkEvent(k8sContainerID, rules) ==
    /\ lastReport' = Report("ReportNetworkEvent", NetworkEventType, k8sContainerID, rules)
    /\ calls' = <<>>
    /\ effects' = <<>>
    /\ UNCHANGED fed
    /\ UNCHANGED <<lifecycleVars, r0006Vars, r1003Vars, laterVars>>

\* ReportDNSEvent: noop
ReportDNSEvent(k8sContainerID, rules) ==
    /\ lastReport' = Report("ReportDNSEvent", DnsEventType, k8sContainerID, rules)
    /\ calls' = <<>>
    /\ effects' = <<>>
    /\ UNCHANGED fed
    /\ UNCHANGED <<lifecycleVars, r0006Vars, r1003Vars, laterVars>>

(***************************************************************************)
(* Back-off retry loops                                                    *)
(***************************************************************************)

\* The failed tries a backoff.Retry loop makes before NextBackOff returns Stop
\* (the program's ExponentialBackOff stops after MaxElapsedTime, 15 minutes)
MaxBackoffRetries == 2

\* The callbacks that call waitForContainer; each is run by the goroutine of
\* its tracer, one call at a time
WaitingCallbacks == {"ReportFileOpen", "ReportCapability"}

CallbackEventType(callback) ==
    IF callback = "ReportFileOpen" THEN OpenEventType ELSE CapabilitiesEventType

\* backoff.Retry(operation, backoff.NewExponentialBackOff()): the loop's failed
\* tries so far, and how many of them came after the root context was cancelled
NewExponentialBackOff == [retries |-> 0, afterCancel |-> 0]

\* backoff.Retry, one more turn of the loop: the operation failed, NextBackOff
\* did not return Stop, and the loop slept. The loop's context is the
\* background context: the ExponentialBackOff carries none.
BackoffRetry(b) ==
    [retries |-> b.retries + 1,
     afterCancel |-> b.afterCancel + (IF ctxCancelled THEN 1 ELSE 0)]

\* ReportFileOpen / ReportCapability are called: waitForContainer tries its
\* operation for the first time. With the key tracked the callback returns
\* (nothing follows waitForContainer); otherwise the loop sleeps and the
\* callback stays inside it.
WaitForContainerCall(callback, k8sContainerID) ==
    /\ waiting[callback] = Nil
    /\ IF k8sContainerID \in trackedContainers
       THEN /\ lastReport' = Report(callback, CallbackEventType(callback), k8sContainerID, <<>>)
            /\ calls' = <<>>
            /\ effects' = <<>>
            /\ UNCHANGED waiting
       ELSE /\ waiting' = [waiting EXCEPT ![callback] =
                              [k8sContainerID |-> k8sContainerID,
                               backoff |-> NewExponentialBackOff]]
            /\ UNCHANGED <<lastReport, calls, effects>>
    /\ UNCHANGED <<fed, instanceIDBackoff, ctxCancelled>>
    /\ UNCHANGED <<r1012Vars, netVars, lifecycleVars, raceVars, r0006Vars, r1003Vars, r1002Vars, httpVars,
                   busVars, cacheVars>>

\* waitForContainer, a later turn of backoff.Retry: the operation finds the key
\* tracked and the callback returns; or NextBackOff returns Stop and the
\* callback returns on the error; or the loop sleeps again.
WaitForContainerRetry(callback) ==
    /\ waiting[callback] # Nil
    /\ LET w == waiting[callback] IN
       IF w.k8sContainerID \in trackedContainers \/ w.backoff.retries >= MaxBackoffRetries
       THEN /\ waiting' = [waiting EXCEPT ![callback] = Nil]
            /\ lastReport' = Report(callback, CallbackEventType(callback),
                                    w.k8sContainerID, <<>>)
            /\ calls' = <<>>
            /\ effects' = <<>>
       ELSE /\ waiting' = [waiting EXCEPT ![callback].backoff = BackoffRetry(w.backoff)]
            /\ UNCHANGED <<lastReport, calls, effects>>
    /\ UNCHANGED <<fed, instanceIDBackoff, ctxCancelled>>
    /\ UNCHANGED <<r1012Vars, netVars, lifecycleVars, raceVars, r0006Vars, r1003Vars, r1002Vars, httpVars,
                   busVars, cacheVars>>

\* startRuleManager, lines 102-105: one more turn of backoff.Retry around
\* ensureInstanceID, which failed (the API server did not answer, the pod is
\* not updated yet); EnsureInstanceID is the loop's end.
EnsureInstanceIDRetry(s) ==
    /\ s \in DOMAIN sessions /\ sessions[s].pc = "ensureInstanceID"
    /\ LET b == IF Has(instanceIDBackoff, s) THEN instanceIDBackoff[s]
                ELSE NewExponentialBackOff
       IN /\ b.retries < MaxBackoffRetries
          /\ instanceIDBackoff' = Set(instanceIDBackoff, s, BackoffRetry(b))
    /\ UNCHANGED <<waiting, ctxCancelled>>
    /\ UNCHANGED <<r1012Vars, netVars, lifecycleVars, dispatchVars, raceVars, r0006Vars, r1003Vars, r1002Vars,
                   httpVars, busVars, cacheVars>>

\* The owner of the root context cancels it. RuleManager.ctx is handed to
\* startRuleManager, which uses it for its span and its log lines.
CancelRootContext ==
    /\ ~ctxCancelled
    /\ ctxCancelled' = TRUE
    /\ UNCHANGED <<waiting, instanceIDBackoff>>
    /\ UNCHANGED <<r1012Vars, netVars, lifecycleVars, dispatchVars, raceVars, r0006Vars, r1003Vars, r1002Vars,
                   httpVars, busVars, cacheVars>>

(***************************************************************************)
(* R0006 Unexpected Service Account Token Access                           *)
(***************************************************************************)

\* strings.HasPrefix
HasPrefix(s, prefix) == Len(s) >= Len(prefix) /\ SubSeq(s, 1, Len(prefix)) = prefix

serviceAccountTokenPathsPrefix ==
    << "/run/secrets/kubernetes.io/serviceaccount",
       "/var/run/secrets/kubernetes.io/serviceaccount" >>

R0006ID == "R0006"
R0006UnexpectedServiceAccountTokenAccessRuleName == "Unexpected Service Account Token Access"

\* The paths of the open events and of the profiles' opens
TokenPath == "/run/secrets/kubernetes.io/serviceaccount/token"
VarTokenPath == "/var/run/secrets/kubernetes.io/serviceaccount/token"
CaCertPath == "/var/run/secrets/kubernetes.io/serviceaccount/ca.crt"
OtherPath == "/etc/passwd"
ShortPath == "/run/secrets"

EventPaths == {TokenPath, VarTokenPath, CaCertPath, OtherPath, ShortPath}
ProfilePaths == {TokenPath, CaCertPath, OtherPath}

\* The events handed to ProcessEvent: kind is the event's Go type
\* (*traceropentype.Event or another one), the rest its fields.
R0006Events ==
    [kind : {"open"}, Path : EventPaths, Namespace : {"ns"}, Pod : {"pod"},
     Container : {"app"}]
    \cup [kind : {"exec"}, Path : {TokenPath}, Namespace : {"ns"}, Pod : {"pod"},
          Container : {"app"}]

\* The completion status of a profile (helpersv1 status values)
ProfileStatuses == {"initializing", "ready", "completed", "too_large", "missing_runtime"}

\* The opens of a profile container: lists without repetition over ProfilePaths
OpenLists ==
    { l \in UNION { [1..n -> ProfilePaths] : n \in 0..2 } :
        \A i, j \in DOMAIN l : i # j => l[i] # l[j] }

\* v1beta1.ApplicationProfile as the rule reads it: Spec.Containers and
\* Spec.InitContainers, each a list of {Name, Opens}; Status is its completion status.
ContainerLists ==
    { <<>> } \cup { <<[Name |-> n, Opens |-> o]>> : n \in {"app", "sidecar"}, o \in OpenLists }

ApplicationProfiles ==
    { [Status |-> st, Containers |-> cs, InitContainers |-> <<>>] :
        st \in ProfileStatuses, cs \in ContainerLists }
    \cup { [Status |-> st, Containers |-> <<>>, InitContainers |-> cs] :
        st \in {"ready"}, cs \in ContainerLists }

\* getContainerFromApplicationProfile: the container of that name among
\* Spec.Containers, then among Spec.InitContainers; Nil stands for the error.
getContainerFromApplicationProfile(ap, containerName) ==
    IF \E i \in DOMAIN ap.Containers : ap.Containers[i].Name = containerName
    THEN LET i == CHOOSE i \in DOMAIN ap.Containers :
                    /\ ap.Containers[i].Name = containerName
                    /\ \A j \in 1..(i-1) : ap.Containers[j].Name # containerName
         IN ap.Containers[i]
    ELSE IF \E i \in DOMAIN ap.InitContainers : ap.InitContainers[i].Name = containerName
    THEN LET i == CHOOSE i \in DOMAIN ap.InitContainers :
                    /\ ap.InitContainers[i].Name = containerName
                    /\ \A j \in 1..(i-1) : ap.InitContainers[j].Name # containerName
         IN ap.InitContainers[i]
    ELSE Nil

\* A nil-profile branch that lets the event pass
R0006ProfileMissingSilent(openEvent) == Nil

\* ProcessEvent, lines 101-109: the failure returned when the cache has no profile
R0006ProfileMissing(openEvent) ==
    [RuleName |-> R0006UnexpectedServiceAccountTokenAccessRuleName,
     RuleID |-> "",
     Err |-> "Application profile is missing",
     FailureEvent |-> openEvent]

\* A whitelist check that wants the event's own path among the opens
R0006WhitelistedExact(appProfileOpenList, openEvent) ==
    \E i \in DOMAIN appProfileOpenList.Opens : appProfileOpenList.Opens[i] = openEvent.Path

\* ProcessEvent, lines 123-129: some open of the profile is under a token prefix
R0006Whitelisted(appProfileOpenList, openEvent) ==
    \E i \in DOMAIN appProfileOpenList.Opens :
        \E p \in DOMAIN serviceAccountTokenPathsPrefix :
            HasPrefix(appProfileOpenList.Opens[i], serviceAccountTokenPathsPrefix[p])

\* R0006UnexpectedServiceAccountTokenAccess.ProcessEvent; ap is what
\* objCache.ApplicationProfileCache().GetApplicationProfile returns for the
\* event's namespace and pod. The result is Nil or the rule failure.
R0006ProcessEvent(eventType, event, ap) ==
    IF eventType # OpenEventType THEN Nil
    ELSE IF event.kind # "open" THEN Nil
    ELSE IF ~ \E p \in DOMAIN serviceAccountTokenPathsPrefix :
                HasPrefix(event.Path, serviceAccountTokenPathsPrefix[p])
    THEN Nil
    ELSE IF ap = Nil THEN R0006ProfileMissing(event)
    ELSE LET appProfileOpenList == getContainerFromApplicationProfile(ap, event.Container) IN
         IF appProfileOpenList = Nil
         THEN [RuleName |-> R0006UnexpectedServiceAccountTokenAccessRuleName,
               RuleID |-> R0006ID,
               Err |-> "Application profile is missing",
               FailureEvent |-> event]
         ELSE IF R0006Whitelisted(appProfileOpenList, event) THEN Nil
         ELSE [RuleName |-> R0006UnexpectedServiceAccountTokenAccessRuleName,
               RuleID |-> R0006ID,
               Err |-> "Unexpected access to service account token: " \o event.Path,
               FailureEvent |-> event]

\* One call of the evaluator's ProcessEvent
R0006Process(eventType, event, ap) ==
    /\ r0006Call' = [eventType |-> eventType, event |-> event, ap |-> ap,
                     res |-> R0006ProcessEvent(eventType, event, ap)]
    /\ UNCHANGED <<lifecycleVars, dispatchVars, r1003Vars, laterVars>>

(***************************************************************************)
(* R1003 Malicious SSH Connection                                          *)
(***************************************************************************)

\* Timestamps are counted in ticks; TicksPerSecond ticks make one second (the
\* program counts nanoseconds, 10^9 to the second).
TicksPerSecond == 2
Second == TicksPerSecond
MaxTimeDiffInSeconds == 2

\* The timestamps of the events: up to three seconds
Timestamps == 0 .. (3 * Second)

R1003ID == "R1003"
R1003MaliciousSSHConnectionRuleName == "Malicious SSH Connection"

SSHRelatedFiles ==
    << "ssh_config", "sshd_config", "ssh_known_hosts", "ssh_known_hosts2", "ssh_config.d",
       "sshd_config.d", ".ssh", "authorized_keys", "authorized_keys2", "known_hosts",
       "known_hosts2", "id_rsa", "id_rsa.pub", "id_dsa", "id_dsa.pub", "id_ecdsa",
       "id_ecdsa.pub", "id_ed25519", "id_ed25519.pub", "id_xmss", "id_xmss.pub" >>

\* strings.Contains
Contains(s, substr) ==
    \E i \in 1..(Len(s) - Len(substr) + 1) : SubSeq(s, i, i + Len(substr) - 1) = substr

\* IsSSHConfigFile: the path contains one of SSHRelatedFiles
IsSSHConfigFile(path) ==
    \E i \in DOMAIN SSHRelatedFiles : Contains(path, SSHRelatedFiles[i])

\* Go's integer division, which truncates toward zero
GoDiv(a, b) == IF a >= 0 THEN a \div b ELSE -((-a) \div b)

\* calculateTimestampDiffInSeconds
calculateTimestampDiffInSeconds(timestamp1, timestamp2) ==
    GoDiv(timestamp1 - timestamp2, Second)

\* A window test that also expires at exactly MaxTimeDiffInSeconds
R1003WindowExpiredAtLimit(timestampDiffInSeconds) ==
    timestampDiffInSeconds >= MaxTimeDiffInSeconds

\* ProcessEvent, line 140: the window has expired
R1003WindowExpired(timestampDiffInSeconds) ==
    timestampDiffInSeconds > MaxTimeDiffInSeconds

\* CreateRuleR1003MaliciousSSHConnection
CreateRuleR1003MaliciousSSHConnection ==
    [accessRelatedFiles |-> FALSE, sshInitiatorPid |-> 0,
     configFileAccessTimeStamp |-> 0, allowedPorts |-> <<22>>]

\* The values of params["allowedPorts"]: absent, a string, or a list whose
\* entries are float64 numbers or strings
PortEntries == { [type |-> "float64", value |-> 2222], [type |-> "string", value |-> 0] }

AllowedPortsParams ==
    { [kind |-> "missing"], [kind |-> "string"] }
    \cup { [kind |-> "list", items |-> l] : l \in UNION { [1..n -> PortEntries] : n \in 0..MaxPortEntries } }

\* The loop of SetParameters, lines 96-103: the float64 entries, as uint16
RECURSIVE ConvertPorts(_)
ConvertPorts(items) ==
    IF items = <<>> THEN <<>>
    ELSE IF Head(items).type = "float64"
         THEN <<Head(items).value % 65536>> \o ConvertPorts(Tail(items))
         ELSE ConvertPorts(Tail(items))

\* R1003MaliciousSSHConnection.SetParameters
R1003SetParameters(param) ==
    /\ r1003Call = Nil
    /\ rule1003' = IF param.kind = "list" /\ Len(param.items) # 0
                   THEN [rule1003 EXCEPT !.allowedPorts = ConvertPorts(param.items)]
                   ELSE rule1003
    /\ r1003Params' = param
    /\ UNCHANGED <<r1003Call, lifecycleVars, dispatchVars, r0006Vars, laterVars>>

\* A membership test that finds nothing
SliceContainsNothing(s, v) == FALSE

\* slices.Contains
SliceContains(s, v) == \E i \in DOMAIN s : s[i] = v

\* The events handed to ProcessEvent: kind is the event's Go type
\* (*traceropentype.Event or *tracernetworktype.Event), the rest its fields.
R1003OpenEvents ==
    [kind : {"open"}, Path : {"/etc/ssh/ssh_config", "/etc/passwd"}, Pid : {1, 2},
     Timestamp : Timestamps]

R1003NetworkEvents ==
    [kind : {"network"}, Pid : {1, 2}, PktType : {"OUTGOING", "HOST"},
     Proto : {"TCP", "UDP"}, Port : {22, 2222}, Timestamp : Timestamps]

R1003Events == R1003OpenEvents \cup R1003NetworkEvents

\* The calls of ProcessEvent: an event under its own event type, and one event
\* each under an event type that is not its own.
R1003Calls ==
    { <<OpenEventType, e>> : e \in R1003OpenEvents }
    \cup { <<NetworkEventType, e>> : e \in R1003NetworkEvents }
    \cup { <<ExecveEventType, e>> : e \in { x \in R1003OpenEvents :
                x.Path = "/etc/ssh/ssh_config" /\ x.Pid = 1 /\ x.Timestamp = 0 } }
    \cup { <<NetworkEventType, e>> : e \in { x \in R1003OpenEvents :
                x.Path = "/etc/ssh/ssh_config" /\ x.Pid = 1 /\ x.Timestamp = 0 } }
    \cup { <<OpenEventType, e>> : e \in { x \in R1003NetworkEvents :
                /\ x.Pid = 1 /\ x.PktType = "OUTGOING" /\ x.Proto = "TCP"
                /\ x.Port = 2222 /\ x.Timestamp = 0 } }

R1003Idle(rule) ==
    [rule EXCEPT !.accessRelatedFiles = FALSE, !.sshInitiatorPid = 0,
                 !.configFileAccessTimeStamp = 0]

\* R1003MaliciousSSHConnection.ProcessEvent: the result (Nil or the failure) and
\* the evaluator's fields after the call.
R1003ProcessEvent(rule, eventType, event) ==
    IF eventType # OpenEventType /\ eventType # NetworkEventType
    THEN [res |-> Nil, rule |-> rule]
    ELSE IF eventType = OpenEventType /\ ~rule.accessRelatedFiles
    THEN IF event.kind # "open" THEN [res |-> Nil, rule |-> rule]
         ELSE IF IsSSHConfigFile(event.Path)
         THEN [res |-> Nil,
               rule |-> [rule EXCEPT !.accessRelatedFiles = TRUE,
                                     !.sshInitiatorPid = event.Pid,
                                     !.configFileAccessTimeStamp = event.Timestamp]]
         ELSE [res |-> Nil, rule |-> rule]
    ELSE IF eventType = NetworkEventType /\ rule.accessRelatedFiles
    THEN IF event.kind # "network" THEN [res |-> Nil, rule |-> rule]
         ELSE LET timestampDiffInSeconds ==
                      calculateTimestampDiffInSeconds(event.Timestamp,
                                                      rule.configFileAccessTimeStamp)
              IN IF R1003WindowExpired(timestampDiffInSeconds)
                 THEN [res |-> Nil, rule |-> R1003Idle(rule)]
                 ELSE IF /\ event.Pid = rule.sshInitiatorPid
                         /\ event.PktType = "OUTGOING"
                         /\ event.Proto = "TCP"
                         /\ ~SliceContains(rule.allowedPorts, event.Port)
                 THEN [res |-> [RuleName |-> R1003MaliciousSSHConnectionRuleName,
                                RuleID |-> R1003ID,
                                Err |-> "ssh connection to port is not allowed",
                                Port |-> event.Port,
                                FailureEvent |-> event],
                       rule |-> R1003Idle(rule)]
                 ELSE [res |-> Nil, rule |-> rule]
    ELSE [res |-> Nil, rule |-> rule]

\* One call of the evaluator's ProcessEvent
R1003Process(eventType, event) ==
    LET out == R1003ProcessEvent(rule1003, eventType, event) IN
    /\ rule1003' = out.rule
    /\ r1003Call' = [eventType |-> eventType, event |-> event, res |-> out.res]
    /\ r1003Params' = Nil
    /\ UNCHANGED <<lifecycleVars, dispatchVars, r0006Vars, laterVars>>

\* The goroutines that hand events to the evaluator: the one that delivers the
\* open events and the one that delivers the network events
R1003Tasks == {"open", "network"}

\* A task outside ProcessEvent; res is what its last call returned
R1003TaskIdle == [pc |-> "idle", event |-> Nil, res |-> Nil]

\* The events of the two tasks: opens of an SSH file, and outgoing TCP
\* connections to a port that is not allowed
R1003TaskEvents(task) ==
    IF task = "open"
    THEN { e \in R1003OpenEvents :
             e.Path = "/etc/ssh/ssh_config" /\ e.Timestamp \in {0, Second} }
    ELSE { e \in R1003NetworkEvents :
             /\ e.PktType = "OUTGOING" /\ e.Proto = "TCP" /\ e.Port = 2222
             /\ e.Timestamp \in {Second, 3 * Second} }

\* A task calls ProcessEvent. With an open event the first access to the
\* evaluator's fields is the read of line 120, with a network event that of
\* line 133 (line 120 stops at its first operand).
R1003Enter(task, event) ==
    /\ r1003Tasks[task].pc = "idle"
    /\ r1003Tasks' = [r1003Tasks EXCEPT ![task] =
                         [pc |-> IF task = "open" THEN "line120" ELSE "line133",
                          event |-> event, res |-> Nil]]
    /\ UNCHANGED r1003Vars
    /\ UNCHANGED <<r1012Vars, netVars, lifecycleVars, dispatchVars, retryVars, r0006Vars, r1002Vars, httpVars,
                   busVars, cacheVars>>

\* ProcessEvent from one access of the evaluator's fields to the next: the
\* fields and the task after the step at t.pc. The function takes no lock.
R1003Access(rule, t) ==
    LET return(res) == [R1003TaskIdle EXCEPT !.res = res]
        at(pc) == [t EXCEPT !.pc = pc]
        failure == [RuleName |-> R1003MaliciousSSHConnectionRuleName,
                    RuleID |-> R1003ID,
                    Err |-> "ssh connection to port is not allowed",
                    Port |-> t.event.Port,
                    FailureEvent |-> t.event]
    IN
    CASE t.pc = "line120" ->
           IF ~rule.accessRelatedFiles /\ IsSSHConfigFile(t.event.Path)
           THEN [rule |-> rule, task |-> at("line126")]
           ELSE [rule |-> rule, task |-> return(Nil)]
      [] t.pc = "line126" ->
           [rule |-> [rule EXCEPT !.accessRelatedFiles = TRUE], task |-> at("line127")]
      [] t.pc = "line127" ->
           [rule |-> [rule EXCEPT !.sshInitiatorPid = t.event.Pid], task |-> at("line128")]
      [] t.pc = "line128" ->
           [rule |-> [rule EXCEPT !.configFileAccessTimeStamp = t.event.Timestamp],
            task |-> return(Nil)]
      [] t.pc = "line133" ->
           IF rule.accessRelatedFiles
           THEN [rule |-> rule, task |-> at("line139")]
           ELSE [rule |-> rule, task |-> return(Nil)]
      [] t.pc = "line139" ->
           IF R1003WindowExpired(calculateTimestampDiffInSeconds(
                                     t.event.Timestamp, rule.configFileAccessTimeStamp))
           THEN [rule |-> rule, task |-> at("line141")]
           ELSE [rule |-> rule, task |-> at("line146")]
      [] t.pc = "line141" ->
           [rule |-> [rule EXCEPT !.accessRelatedFiles = FALSE], task |-> at("line142")]
      [] t.pc = "line142" ->
           [rule |-> [rule EXCEPT !.sshInitiatorPid = 0], task |-> at("line143")]
      [] t.pc = "line143" ->
           [rule |-> [rule EXCEPT !.configFileAccessTimeStamp = 0], task |-> return(Nil)]
      [] t.pc = "line146" ->
           IF /\ t.event.Pid = rule.sshInitiatorPid
              /\ ~SliceContains(rule.allowedPorts, t.event.Port)
           THEN [rule |-> rule, task |-> at("line147")]
           ELSE [rule |-> rule, task |-> return(Nil)]
      [] t.pc = "line147" ->
           [rule |-> [rule EXCEPT !.accessRelatedFiles = FALSE], task |-> at("line148")]
      [] t.pc = "line148" ->
           [rule |-> [rule EXCEPT !.sshInitiatorPid = 0], task |-> at("line149")]
      [] t.pc = "line149" ->
           [rule |-> [rule EXCEPT !.configFileAccessTimeStamp = 0], task |-> return(failure)]

\* The next step of a task inside ProcessEvent
R1003Step(task) ==
    /\ r1003Tasks[task].pc # "idle"
    /\ LET out == R1003Access(rule1003, r1003Tasks[task]) IN
       /\ rule1003' = out.rule
       /\ r1003Tasks' = [r1003Tasks EXCEPT ![task] = out.task]
    /\ UNCHANGED <<r1003Call, r1003Params>>
    /\ UNCHANGED <<r1012Vars, netVars, lifecycleVars, dispatchVars, retryVars, r0006Vars, r1002Vars, httpVars,
                   busVars, cacheVars>>

(***************************************************************************)
(* R1002 Kernel Module Load                                                *)
(***************************************************************************)
SyscallEventType == "syscall"

R1002ID == "R1002"
R1002LoadKernelModuleRuleName == "Kernel Module Load"

\* RuleDesciptor.Priority of R1002LoadKernelModuleRuleDescriptor
RulePriorityCritical == "RulePriorityCritical"

MaxSyscalls == 3          \* length of a syscall event's Syscalls list

SyscallNames == {"init_module", "finit_module", "openat", "delete_module"}

\* The events handed to ProcessEvent: kind is the event's Go type
\* (*tracing.SyscallEvent or another one), Syscalls the event's syscall list.
R1002Events ==
    { [kind |-> k, Syscalls |-> l] :
        k \in {"syscall", "open"},
        l \in UNION { [1..n -> SyscallNames] : n \in 0..MaxSyscalls } }

\* A test that also takes finit_module for a module load
R1002LoadsModuleAnyCall(syscallEvent) ==
    \/ SliceContains(syscallEvent.Syscalls, "init_module")
    \/ SliceContains(syscallEvent.Syscalls, "finit_module")

\* ProcessEvent, line 66: slices.Contains(syscallEvent.Syscalls, "init_module")
R1002LoadsModule(syscallEvent) ==
    SliceContains(syscallEvent.Syscalls, "init_module")

\* R1002LoadKernelModule.ProcessEvent: Nil or the rule failure
R1002ProcessEvent(eventType, event) ==
    IF eventType # SyscallEventType THEN Nil
    ELSE IF event.kind # "syscall" THEN Nil
    ELSE IF R1002LoadsModule(event)
    THEN [RuleName |-> R1002LoadKernelModuleRuleName,
          Err |-> "Kernel Module Load",
          FailureEvent |-> event,
          RulePriority |-> RulePriorityCritical]
    ELSE Nil

\* One call of the evaluator's ProcessEvent
R1002Process(eventType, event) ==
    /\ r1002Call' = [eventType |-> eventType, event |-> event,
                     res |-> R1002ProcessEvent(eventType, event)]
    /\ UNCHANGED <<r1012Vars, netVars, lifecycleVars, dispatchVars, retryVars, raceVars, r0006Vars, r1003Vars, httpVars, busVars, cacheVars>>

(***************************************************************************)
(* HTTP exporter                                                           *)
(***************************************************************************)
TicksPerMinute == 2       \* clock ticks in one 60-second window
MaxWindows == 2           \* windows the clock runs through
MaxAlerts == 4            \* alerts handed to the HTTP exporter

DefaultTimeoutSeconds == 1
DefaultMaxAlertsPerMinute == 10000

\* HTTPExporterConfig as the caller fills it: an option left out has Go's zero
\* value ("" , 0, a nil map).
HTTPExporterConfigs ==
    [URL : {"", "http://localhost:9093"},
     Method : {"", "POST", "PUT", "DELETE"},
     TimeoutSeconds : {0, 1, 2},
     MaxAlertsPerMinute : {0, 1, 2},
     Headers : {Nil, [Authorization |-> "Bearer token"]}]

\* The configs of the exporters whose rate limit is exercised
HTTPRateConfigs ==
    { c \in HTTPExporterConfigs :
        /\ c.URL # "" /\ c.Method = "" /\ c.TimeoutSeconds = 0 /\ c.Headers = Nil }

\* A validation that lets every method through
HTTPMethodErrorNever(method) == FALSE

\* the method is neither left out, POST nor PUT
HTTPMethodError(method) == method \notin {"", "POST", "PUT"}

\* The config with its defaults filled in
HTTPConfigWithDefaults(config) ==
    [URL |-> config.URL,
     Method |-> IF config.Method = "" THEN "POST" ELSE config.Method,
     TimeoutSeconds |-> IF config.TimeoutSeconds = 0 THEN DefaultTimeoutSeconds
                        ELSE config.TimeoutSeconds,
     MaxAlertsPerMinute |-> IF config.MaxAlertsPerMinute = 0 THEN DefaultMaxAlertsPerMinute
                            ELSE config.MaxAlertsPerMinute,
     Headers |-> IF config.Headers = Nil THEN <<>> ELSE config.Headers]

\* InitHTTPExporter: the error (TRUE or FALSE) and the exporter (Nil on error)
InitHTTPExporterResult(config) ==
    IF config.URL = "" \/ HTTPMethodError(config.Method)
    THEN [err |-> TRUE, exporter |-> Nil]
    ELSE [err |-> FALSE,
          exporter |-> [config |-> HTTPConfigWithDefaults(config),
                        alertCount |-> 0, alertCountWindow |-> 0,
                        alertLimitNotified |-> FALSE]]

InitHTTPExporter(config) ==
    LET out == InitHTTPExporterResult(config) IN
    /\ httpExporter = Nil /\ httpLog = <<>> /\ httpNow = 0
    /\ httpInit' = [config |-> config, err |-> out.err]
    /\ httpExporter' = out.exporter
    /\ UNCHANGED <<httpNow, httpLog>>
    /\ UNCHANGED <<r1012Vars, netVars, lifecycleVars, dispatchVars, retryVars, raceVars, r0006Vars, r1003Vars, r1002Vars, busVars, cacheVars>>

\* The 60-second window a clock value falls in
HTTPWindow(now) == now \div TicksPerMinute

\* A roll-over that keeps the count and the notice of the window before
HTTPRollOverKeeping(exporter, now) ==
    [exporter EXCEPT !.alertCountWindow = HTTPWindow(now)]

\* The exporter at the first alert of a new window: the counter starts afresh
HTTPRollOver(exporter, now) ==
    IF HTTPWindow(now) # exporter.alertCountWindow
    THEN [exporter EXCEPT !.alertCountWindow = HTTPWindow(now),
                          !.alertCount = 0, !.alertLimitNotified = FALSE]
    ELSE exporter

\* A limit notice sent again for every alert over the limit
HTTPOverLimitAlways(exporter) == [rule_name |-> "AlertLimitReached", message |-> "Alert limit reached"]

\* What is sent for an alert over the limit: the synthetic alert once, then nothing
HTTPOverLimit(exporter) ==
    IF exporter.alertLimitNotified THEN Nil
    ELSE [rule_name |-> "AlertLimitReached", message |-> "Alert limit reached"]

\* A limit that lets one alert more through
HTTPLimitReachedLate(exporter) ==
    exporter.alertCount > exporter.config.MaxAlertsPerMinute + 1

\* The alert just counted is over the window's limit
HTTPLimitReached(exporter) ==
    exporter.alertCount > exporter.config.MaxAlertsPerMinute

\* One alert through the rate limiter: the payload sent (Nil when suppressed)
\* and the exporter after it
HTTPSendAlert(exporter, now, alert) ==
    LET rolled == HTTPRollOver(exporter, now)
        counted == [rolled EXCEPT !.alertCount = @ + 1]
    IN IF HTTPLimitReached(counted)
       THEN [sent |-> HTTPOverLimit(counted),
             exporter |-> [counted EXCEPT !.alertLimitNotified = TRUE]]
       ELSE [sent |-> alert, exporter |-> counted]

HTTPSend(alert) ==
    LET out == HTTPSendAlert(httpExporter, httpNow, alert) IN
    /\ httpExporter # Nil /\ Len(httpLog) < MaxAlerts
    /\ httpExporter' = out.exporter
    /\ httpLog' = Append(httpLog, [time |-> httpNow, alert |-> alert, sent |-> out.sent])
    /\ UNCHANGED <<httpInit, httpNow>>
    /\ UNCHANGED <<r1012Vars, netVars, lifecycleVars, dispatchVars, retryVars, raceVars, r0006Vars, r1003Vars, r1002Vars, busVars, cacheVars>>

\* HTTPExporter.SendRuleAlert: the alert of a rule failure
HTTPSendRuleAlert(failedRule) ==
    HTTPSend([rule_name |-> failedRule.RuleName, message |-> failedRule.Err])

\* HTTPExporter.SendMalwareAlert: the alert of a malware description
HTTPSendMalwareAlert(malwareDescription) ==
    HTTPSend([rule_name |-> "KubescapeMalwareDetected",
              message |-> malwareDescription.Description])

\* The clock advances
HTTPTick ==
    /\ httpExporter # Nil /\ httpNow + 1 < MaxWindows * TicksPerMinute
    /\ httpNow' = httpNow + 1
    /\ UNCHANGED <<httpExporter, httpInit, httpLog>>
    /\ UNCHANGED <<r1012Vars, netVars, lifecycleVars, dispatchVars, retryVars, raceVars, r0006Vars, r1003Vars, r1002Vars, busVars, cacheVars>>

\* The alerts of the exporter's tests
TestFailedRule == [RuleName |-> "testrule", Err |-> "Application profile is missing"]
TestMalwareDescription == [Name |-> "testmalware", Description |-> "testmalwaredescription"]

(***************************************************************************)
(* Exporter bus                                                            *)
(***************************************************************************)
MaxUrls == 2              \* length of AlertManagerExporterUrls

\* ExportersConfig. StdoutExporter is a *bool (Nil or a pointer to v) and
\* HTTPExporterConfig a *HTTPExporterConfig (Nil or a config).
AlertManagerUrlLists ==
    UNION { [1..n -> {"http://am1:9093", "http://am2:9093"}] : n \in 0..MaxUrls }

HTTPBusConfigs ==
    { c \in HTTPExporterConfigs :
        /\ c.Method = "" /\ c.TimeoutSeconds = 0 /\ c.Headers = Nil
        /\ c.MaxAlertsPerMinute = 1 }

ExportersConfigs ==
    [AlertManagerExporterUrls : AlertManagerUrlLists,
     StdoutExporter : {Nil, [v |-> TRUE], [v |-> FALSE]},
     HTTPExporterConfig : {Nil} \cup HTTPBusConfigs]

\* The environment variables InitExporters and InitStdoutExporter read
BusEnvs == [STDOUT_ENABLED : {"", "false"}, HTTP_ENDPOINT_URL : {"", "http://localhost:9093"}]

\* InitStdoutExporter: TRUE when it returns an exporter, FALSE when it returns nil
InitStdoutExporter(useStdout, env) ==
    IF useStdout = Nil THEN env.STDOUT_ENABLED # "false" ELSE useStdout.v

\* InitExporters, lines 399-404: the alert-manager exporters that are not nil,
\* in URL order; alertMans[i] is what InitAlertManagerExporter returned for URL i.
RECURSIVE AlertManagerExporters(_, _, _)
AlertManagerExporters(urls, alertMans, from) ==
    IF from > Len(urls) THEN <<>>
    ELSE (IF alertMans[from]
          THEN <<[kind |-> "alertmanager", url |-> urls[from], n |-> from]>>
          ELSE <<>>)
         \o AlertManagerExporters(urls, alertMans, from + 1)

\* InitExporters, lines 417-422: the HTTP config, filled from HTTP_ENDPOINT_URL
\* when the config has none
HTTPConfigOrEnv(exportersConfig, env) ==
    IF exportersConfig.HTTPExporterConfig = Nil
    THEN IF env.HTTP_ENDPOINT_URL # ""
         THEN [URL |-> env.HTTP_ENDPOINT_URL, Method |-> "", TimeoutSeconds |-> 0,
               MaxAlertsPerMinute |-> 0, Headers |-> Nil]
         ELSE Nil
    ELSE exportersConfig.HTTPExporterConfig

\* An append that leaves out the exporter of a failed InitHTTPExporter
HTTPBusEntryChecked(out) ==
    IF out.err THEN <<>> ELSE <<[kind |-> "http", exporter |-> out.exporter]>>

\* InitExporters, lines 424-428: the error is logged and httpExp appended
\* whatever InitHTTPExporter returned; on an error the entry holds a nil *HTTPExporter.
HTTPBusEntry(out) == <<[kind |-> "http", exporter |-> out.exporter]>>

\* InitExporters: the exporters list. alertMans, syslogExp and csvExp are what
\* InitAlertManagerExporter, InitSyslogExporter and InitCsvExporter returned
\* (TRUE an exporter, FALSE nil).
InitExportersList(exportersConfig, env, alertMans, syslogExp, csvExp) ==
    LET httpConfig == HTTPConfigOrEnv(exportersConfig, env) IN
    AlertManagerExporters(exportersConfig.AlertManagerExporterUrls, alertMans, 1)
    \o (IF InitStdoutExporter(exportersConfig.StdoutExporter, env)
        THEN <<[kind |-> "stdout"]>> ELSE <<>>)
    \o (IF syslogExp THEN <<[kind |-> "syslog"]>> ELSE <<>>)
    \o (IF csvExp THEN <<[kind |-> "csv"]>> ELSE <<>>)
    \o (IF httpConfig = Nil THEN <<>>
        ELSE HTTPBusEntry(InitHTTPExporterResult(httpConfig)))

\* InitExporters: panics when the list is empty, else returns the bus
InitExporters(exportersConfig, env, alertMans, syslogExp, csvExp) ==
    LET exporters == InitExportersList(exportersConfig, env, alertMans, syslogExp, csvExp)
        httpConfig == HTTPConfigOrEnv(exportersConfig, env)
    IN
    /\ exporterBus = Nil
    /\ exporterBus' = [panicked |-> Len(exporters) = 0, exporters |-> exporters]
    /\ IF httpConfig = Nil THEN UNCHANGED <<httpExporter, httpInit>>
       ELSE /\ httpExporter' = InitHTTPExporterResult(httpConfig).exporter
            /\ httpInit' = [config |-> httpConfig,
                            err |-> InitHTTPExporterResult(httpConfig).err]
    /\ UNCHANGED <<busSend, httpNow, httpLog>>
    /\ UNCHANGED <<r1012Vars, netVars, lifecycleVars, dispatchVars, retryVars, raceVars, r0006Vars, r1003Vars, r1002Vars, cacheVars>>

\* A call of SendRuleAlert or SendMalwareAlert on a bus entry panics when the
\* entry is the nil *HTTPExporter: the method reads the exporter's fields.
BusEntryPanics(entry) == entry.kind = "http" /\ entry.exporter = Nil

\* A loop that stops after the first exporter
BusSendFromFirstOnly(exporters, from) ==
    IF from > Len(exporters) THEN [received |-> <<>>, panicked |-> FALSE]
    ELSE [received |-> <<from>>, panicked |-> FALSE]

\* ExporterBus.SendRuleAlert / SendMalwareAlert: the loop over exporters[from..];
\* received lists the entries whose method ran, panicked tells whether the loop
\* ended in a panic (there is no recover).
RECURSIVE BusSendFrom(_, _)
BusSendFrom(exporters, from) ==
    IF from > Len(exporters) THEN [received |-> <<>>, panicked |-> FALSE]
    ELSE IF BusEntryPanics(exporters[from]) THEN [received |-> <<>>, panicked |-> TRUE]
    ELSE LET rest == BusSendFrom(exporters, from + 1) IN
         [received |-> <<from>> \o rest.received, panicked |-> rest.panicked]

\* One alert on the bus; the HTTP exporter among the receivers runs its rate limiter
BusSend(method, alert) ==
    LET out == BusSendFrom(exporterBus.exporters, 1)
        toHTTP == \E i \in DOMAIN out.received : exporterBus.exporters[out.received[i]].kind = "http"
        http == HTTPSendAlert(httpExporter, httpNow, alert)
    IN
    /\ exporterBus # Nil /\ ~exporterBus.panicked
    /\ IF busSend = Nil THEN TRUE ELSE ~busSend.panicked
    /\ Len(httpLog) < MaxAlerts
    /\ busSend' = [method |-> method, alert |-> alert, received |-> out.received,
                   panicked |-> out.panicked]
    /\ IF toHTTP
       THEN /\ httpExporter' = http.exporter
            /\ httpLog' = Append(httpLog, [time |-> httpNow, alert |-> alert, sent |-> http.sent])
       ELSE UNCHANGED <<httpExporter, httpLog>>
    /\ UNCHANGED <<exporterBus, httpInit, httpNow>>
    /\ UNCHANGED <<r1012Vars, netVars, lifecycleVars, dispatchVars, retryVars, raceVars, r0006Vars, r1003Vars, r1002Vars, cacheVars>>

\* ExporterBus.SendRuleAlert
BusSendRuleAlert(failedRule) ==
    BusSend("SendRuleAlert", [rule_name |-> failedRule.RuleName, message |-> failedRule.Err])

\* ExporterBus.SendMalwareAlert
BusSendMalwareAlert(malwareDescription) ==
    BusSend("SendMalwareAlert", [rule_name |-> "KubescapeMalwareDetected",
                                 message |-> malwareDescription.Description])

(***************************************************************************)
(* Application profile cache                                               *)
(***************************************************************************)

\* objectcache.UniqueName: namespace/name
UniqueName(namespace, name) == namespace \o "/" \o name

\* The pods of the watch: slug is what names.InstanceIDToSlug gives for the
\* pod's first instance id, "" when the pod yields no instance id or no slug.
Pods ==
    { [Kind |-> "Pod", Namespace |-> "ns", Name |-> "web-1", slug |-> "replicaset-web"],
      [Kind |-> "Pod", Namespace |-> "ns", Name |-> "web-2", slug |-> "replicaset-web"],
      [Kind |-> "Pod", Namespace |-> "ns", Name |-> "db-0", slug |-> "statefulset-db"],
      [Kind |-> "Pod", Namespace |-> "ns", Name |-> "bare", slug |-> ""] }

\* The application profiles of the watch (metadata only); a profile is named
\* by the slug of its workload.
Profiles ==
    { [Kind |-> "ApplicationProfile", Namespace |-> "ns", Name |-> "replicaset-web"],
      [Kind |-> "ApplicationProfile", Namespace |-> "ns", Name |-> "statefulset-db"] }

\* objectcache.UnstructuredUniqueName
UnstructuredUniqueName(obj) == UniqueName(obj.Namespace, obj.Name)

\* The full profile object the storage holds under namespace/name
FullProfile(namespace, name) == [Namespace |-> namespace, Name |-> name, full |-> TRUE]

\* What the dynamic client's Get does on a point read: it returns the object
\* or an error
Reads == {"ok", "error"}

\* A conversion into an allocated ApplicationProfile, which succeeds
unstructuredToApplicationProfileAllocated(obj) == [err |-> FALSE, ap |-> obj]

\* unstructuredToApplicationProfile: json.Unmarshal(bytes, ap) is handed ap, a
\* nil *ApplicationProfile (declared by "var ap" and never allocated), and
\* returns an InvalidUnmarshalError for a nil pointer whatever the bytes are.
unstructuredToApplicationProfile(obj) == [err |-> TRUE, ap |-> Nil]

\* getApplicationProfile: the point read, then the conversion of what it returned
getApplicationProfile(namespace, name, read) ==
    IF read = "error" THEN [err |-> TRUE, ap |-> Nil]
    ELSE unstructuredToApplicationProfile(FullProfile(namespace, name))

\* GetApplicationProfile: the entry of slugToAppProfile under namespace/name
GetApplicationProfile(namespace, name) ==
    LET uniqueName == UniqueName(namespace, name) IN
    IF Has(slugToAppProfile, uniqueName) THEN slugToAppProfile[uniqueName] ELSE Nil

\* mapset.Set.Add on the set kept under a key, created when missing
AddToSet(m, k, v) == Set(m, k, (IF Has(m, k) THEN m[k] ELSE {}) \cup {v})

\* addPod
addPod(podU, read) ==
    LET podName == UnstructuredUniqueName(podU)
        uniqueSlug == UniqueName(podU.Namespace, podU.slug)
        appProfile == getApplicationProfile(podU.Namespace, podU.slug, read)
    IN
    IF Has(podToSlug, podName) \/ podU.slug = ""
    THEN UNCHANGED <<podToSlug, slugToAppProfile, slugToPods, allProfiles>>
    ELSE /\ podToSlug' = Set(podToSlug, podName, uniqueSlug)
         /\ slugToPods' = AddToSet(slugToPods, uniqueSlug, podName)
         /\ slugToAppProfile' =
               IF /\ uniqueSlug \in allProfiles /\ ~Has(slugToAppProfile, uniqueSlug)
                  /\ ~appProfile.err
               THEN Set(slugToAppProfile, uniqueSlug, appProfile.ap)
               ELSE slugToAppProfile
         /\ UNCHANGED allProfiles

\* A deletePod that leaves the pod's entry in podToSlug
deletePodKeepingSlug(obj) ==
    LET podName == UnstructuredUniqueName(obj)
        uniqueSlug == IF Has(podToSlug, podName) THEN podToSlug[podName] ELSE ""
    IN
    /\ UNCHANGED podToSlug
    /\ IF Has(slugToPods, uniqueSlug)
       THEN IF slugToPods[uniqueSlug] \ {podName} = {}
            THEN /\ slugToPods' = Delete(slugToPods, uniqueSlug)
                 /\ slugToAppProfile' = Delete(slugToAppProfile, uniqueSlug)
            ELSE /\ slugToPods' = [slugToPods EXCEPT ![uniqueSlug] = @ \ {podName}]
                 /\ UNCHANGED slugToAppProfile
       ELSE UNCHANGED <<slugToPods, slugToAppProfile>>
    /\ UNCHANGED allProfiles

\* deletePod
deletePod(obj) ==
    LET podName == UnstructuredUniqueName(obj)
        uniqueSlug == IF Has(podToSlug, podName) THEN podToSlug[podName] ELSE ""
    IN
    /\ podToSlug' = Delete(podToSlug, podName)
    /\ IF Has(slugToPods, uniqueSlug)
       THEN IF slugToPods[uniqueSlug] \ {podName} = {}
            THEN /\ slugToPods' = Delete(slugToPods, uniqueSlug)
                 /\ slugToAppProfile' = Delete(slugToAppProfile, uniqueSlug)
            ELSE /\ slugToPods' = [slugToPods EXCEPT ![uniqueSlug] = @ \ {podName}]
                 /\ UNCHANGED slugToAppProfile
       ELSE UNCHANGED <<slugToPods, slugToAppProfile>>
    /\ UNCHANGED allProfiles

\* The loop of addApplicationProfile over podToSlug: every pod of the slug
\* joins slugToPods[apName]
PodsOfSlug(apName) == { podName \in DOMAIN podToSlug : podToSlug[podName] = apName }

\* addApplicationProfile
addApplicationProfile(obj, read) ==
    LET apName == UnstructuredUniqueName(obj)
        appProfile == unstructuredToApplicationProfile(obj)
        fullAP == getApplicationProfile(obj.Namespace, obj.Name, read)
    IN
    IF appProfile.err \/ fullAP.err
    THEN UNCHANGED <<podToSlug, slugToAppProfile, slugToPods, allProfiles>>
    ELSE /\ slugToAppProfile' = Set(slugToAppProfile, apName, fullAP.ap)
         /\ allProfiles' = allProfiles \cup {apName}
         /\ slugToPods' = IF PodsOfSlug(apName) = {} THEN slugToPods
                          ELSE Set(slugToPods, apName,
                                   (IF Has(slugToPods, apName) THEN slugToPods[apName] ELSE {})
                                   \cup PodsOfSlug(apName))
         /\ UNCHANGED podToSlug

\* A deleteApplicationProfile that also forgets the pods of the profile's slug
deleteApplicationProfileWithPods(obj) ==
    LET apName == UnstructuredUniqueName(obj) IN
    /\ slugToAppProfile' = Delete(slugToAppProfile, apName)
    /\ allProfiles' = allProfiles \ {apName}
    /\ slugToPods' = Delete(slugToPods, apName)
    /\ podToSlug' = [podName \in DOMAIN podToSlug \ PodsOfSlug(apName) |-> podToSlug[podName]]

\* deleteApplicationProfile
deleteApplicationProfile(obj) ==
    LET apName == UnstructuredUniqueName(obj) IN
    /\ slugToAppProfile' = Delete(slugToAppProfile, apName)
    /\ allProfiles' = allProfiles \ {apName}
    /\ slugToPods' = Delete(slugToPods, apName)
    /\ UNCHANGED podToSlug

\* The watch event as the history keeps it
WatchEvent(handler, obj, read) ==
    [handler |-> handler, obj |-> obj, read |-> read,
     wasCached |-> Has(podToSlug, UnstructuredUniqueName(obj)),
     wasLast |-> /\ Has(podToSlug, UnstructuredUniqueName(obj))
                 /\ \A podName \in DOMAIN podToSlug :
                       podToSlug[podName] = podToSlug[UnstructuredUniqueName(obj)]
                       => podName = UnstructuredUniqueName(obj)]

\* The profiles that exist in the cluster after the watch reported the event:
\* those added or modified and not deleted since
ReportedProfiles(handler, obj) ==
    IF obj.Kind = "Pod" THEN clusterProfiles
    ELSE IF handler = "DeleteHandler" THEN clusterProfiles \ {UnstructuredUniqueName(obj)}
    ELSE clusterProfiles \cup {UnstructuredUniqueName(obj)}

\* AddHandler
AddHandler(obj, read) ==
    /\ IF obj.Kind = "Pod" THEN addPod(obj, read) ELSE addApplicationProfile(obj, read)
    /\ clusterProfiles' = ReportedProfiles("AddHandler", obj)
    /\ cacheEvent' = WatchEvent("AddHandler", obj, read)
    /\ cacheLookup' = Nil
    /\ UNCHANGED <<r1012Vars, netVars, lifecycleVars, dispatchVars, retryVars, raceVars, r0006Vars, r1003Vars, r1002Vars, httpVars, busVars>>

\* ModifyHandler: nothing for a pod
ModifyHandler(obj, read) ==
    /\ IF obj.Kind = "Pod"
       THEN UNCHANGED <<podToSlug, slugToAppProfile, slugToPods, allProfiles>>
       ELSE addApplicationProfile(obj, read)
    /\ clusterProfiles' = ReportedProfiles("ModifyHandler", obj)
    /\ cacheEvent' = WatchEvent("ModifyHandler", obj, read)
    /\ cacheLookup' = Nil
    /\ UNCHANGED <<r1012Vars, netVars, lifecycleVars, dispatchVars, retryVars, raceVars, r0006Vars, r1003Vars, r1002Vars, httpVars, busVars>>

\* DeleteHandler
DeleteHandler(obj) ==
    /\ IF obj.Kind = "Pod" THEN deletePod(obj) ELSE deleteApplicationProfile(obj)
    /\ clusterProfiles' = ReportedProfiles("DeleteHandler", obj)
    /\ cacheEvent' = WatchEvent("DeleteHandler", obj, "ok")
    /\ cacheLookup' = Nil
    /\ UNCHANGED <<r1012Vars, netVars, lifecycleVars, dispatchVars, retryVars, raceVars, r0006Vars, r1003Vars, r1002Vars, httpVars, busVars>>

\* A rule's lookup: GetApplicationProfile with the namespace and pod name of
\* the event of a pod (R0006 ProcessEvent, line 99)
LookupByEvent(pod) ==
    /\ cacheEvent # Nil
    /\ cacheLookup' = [namespace |-> pod.Namespace, name |-> pod.Name,
                       res |-> GetApplicationProfile(pod.Namespace, pod.Name)]
    /\ UNCHANGED <<podToSlug, slugToAppProfile, slugToPods, allProfiles, clusterProfiles,
                   cacheEvent>>
    /\ UNCHANGED <<r1012Vars, netVars, lifecycleVars, dispatchVars, retryVars, raceVars, r0006Vars, r1003Vars, r1002Vars, httpVars, busVars>>

(***************************************************************************)
(* R1012 Hardlink Created Over Sensitive File                              *)
(***************************************************************************)
HardlinkEventType == "hardlink"

R1012ID == "R1012"
R1012Name == "Hardlink Created Over Sensitive File"

MaxPathEntries == 2       \* length of the additionalPaths parameter list
MaxAddedPaths == 2        \* paths all SetParameters calls together append

\* The elements of a slice
Elements(s) == { s[i] : i \in DOMAIN s }

\* SensitiveFiles, the built-in list of the package
SensitiveFiles == << "/etc/shadow", "/etc/sudoers" >>

\* CreateRuleR1012HardlinkCreatedOverSensitiveFile
CreateRuleR1012HardlinkCreatedOverSensitiveFile == [additionalPaths |-> SensitiveFiles]

\* The values of parameters["additionalPaths"]: absent, a string, or a list
\* whose entries are strings or float64 numbers
PathEntries ==
    { [type |-> "string", text |-> "/opt/secret"], [type |-> "string", text |-> "/srv/keys"],
      [type |-> "float64", number |-> 7] }

AdditionalPathsParams ==
    { [kind |-> "missing"], [kind |-> "string"] }
    \cup { [kind |-> "list", items |-> l] :
             l \in UNION { [1..n -> PathEntries] : n \in 0..MaxPathEntries } }

\* fmt.Sprintf("%v", v) of a string or of a small whole number
SprintfV(v) ==
    IF v.type = "string" THEN v.text
    ELSE << "0", "1", "2", "3", "4", "5", "6", "7", "8", "9" >>[v.number + 1]

\* interfaceToStringSlice: a list converts entry by entry, anything else does not
interfaceToStringSlice(val) ==
    IF val.kind = "list"
    THEN [ok |-> TRUE, slice |-> [i \in DOMAIN val.items |-> SprintfV(val.items[i])]]
    ELSE [ok |-> FALSE, slice |-> <<>>]

\* A SetParameters that starts again from the built-in list on every call
R1012SetParametersFromBuiltIn(paths, param) ==
    IF param.kind = "missing" THEN paths
    ELSE LET converted == interfaceToStringSlice(param) IN
         IF converted.ok THEN SensitiveFiles \o converted.slice ELSE paths

\* SetParameters, lines 54-66: rule.additionalPaths after the call
R1012SetParametersPaths(paths, param) ==
    IF param.kind = "missing" THEN paths
    ELSE LET converted == interfaceToStringSlice(param) IN
         IF converted.ok THEN paths \o converted.slice ELSE paths

\* R1012HardlinkCreatedOverSensitiveFile.SetParameters
R1012SetParameters(param) ==
    LET paths == R1012SetParametersPaths(rule1012.additionalPaths, param) IN
    /\ Len(paths) <= Len(SensitiveFiles) + MaxAddedPaths
    /\ rule1012' = [rule1012 EXCEPT !.additionalPaths = paths]
    /\ r1012Added' = r1012Added \cup Elements(interfaceToStringSlice(param).slice)
    /\ r1012Call' = [call |-> "SetParameters", param |-> param]
    /\ UNCHANGED <<netVars, lifecycleVars, dispatchVars, retryVars, raceVars, r0006Vars,
                   r1003Vars, r1002Vars, httpVars, busVars, cacheVars>>

\* What the evaluator's allow-list lookup finds for the event's container: no
\* profile, or the processes the profile allows for this rule
R1012Policies ==
    { [found |-> FALSE, AllowedProcesses |-> {}],
      [found |-> TRUE, AllowedProcesses |-> {}],
      [found |-> TRUE, AllowedProcesses |-> {"dpkg"}] }

\* isAllowed: the comm is among the allowed processes; an error without a profile
isAllowed(policy, comm) ==
    IF ~policy.found THEN [allowed |-> FALSE, err |-> TRUE]
    ELSE [allowed |-> comm \in policy.AllowedProcesses, err |-> FALSE]

\* The events handed to ProcessEvent: kind is the event's Go type
\* (*tracerhardlinktype.Event or another)
R1012HardlinkEvents ==
    [kind : {"hardlink"}, Comm : {"ln", "dpkg"}, NewPath : {"/tmp/link"},
     OldPath : {"/etc/shadow", "/etc/shadow-", "/etc/passwd", "/opt/secret/key", "/opt", "7"}]

R1012OtherEvent == [kind |-> "open", Comm |-> "ln", Path |-> "/etc/shadow"]

\* The calls of ProcessEvent: a hardlink event under its own event type, the
\* same under another event type, and another event under the hardlink type
R1012Calls ==
    { <<HardlinkEventType, e>> : e \in R1012HardlinkEvents }
    \cup { <<OpenEventType, e>> : e \in { x \in R1012HardlinkEvents : x.OldPath = "/etc/shadow" } }
    \cup { <<HardlinkEventType, R1012OtherEvent>> }

\* EvaluateRule
R1012EvaluateRule(eventType, event) ==
    IF eventType # HardlinkEventType THEN FALSE ELSE event.kind = "hardlink"

\* R1012HardlinkCreatedOverSensitiveFile.ProcessEvent: Nil or the failure
R1012ProcessEvent(rule, eventType, event, policy) ==
    IF ~R1012EvaluateRule(eventType, event) THEN Nil
    ELSE LET check == isAllowed(policy, event.Comm) IN
         IF ~check.err /\ check.allowed THEN Nil
         ELSE IF \E i \in DOMAIN rule.additionalPaths :
                    HasPrefix(event.OldPath, rule.additionalPaths[i])
              THEN [RuleName |-> R1012Name, RuleID |-> R1012ID,
                    oldPath |-> event.OldPath, newPath |-> event.NewPath]
              ELSE Nil

\* One call of the evaluator's ProcessEvent
R1012Process(eventType, event, policy) ==
    /\ r1012Call' = [call |-> "ProcessEvent", eventType |-> eventType, event |-> event,
                     policy |-> policy,
                     res |-> R1012ProcessEvent(rule1012, eventType, event, policy)]
    /\ UNCHANGED <<rule1012, r1012Added>>
    /\ UNCHANGED <<netVars, lifecycleVars, dispatchVars, retryVars, raceVars, r0006Vars,
                   r1003Vars, r1002Vars, httpVars, busVars, cacheVars>>

(***************************************************************************)
(* Network manager (pkg/networkmanager/network_manager.go)                 *)
(***************************************************************************)
MaxAmCallbacks == 2       \* add callbacks of the network manager that get past the check
MaxNetworkEvents == 2     \* SaveNetworkEvent calls

\* maps.SafeMap.Get on a map of slices: the nil slice for a missing key
GetSlice(m, k) == IF k \in DOMAIN m THEN m[k] ELSE <<>>

\* The key SaveNetworkEvent uses: containerName + podName
SaveKey(containerName, podName) == containerName \o podName

\* The key handleContainerStarted, handleNetworkEvents and handleContainerStopped
\* use: container.Runtime.ContainerID + container.K8s.PodName
ContainerAndPodKey(container) == container.ContainerID \o container.PodName

\* What getParentWorkloadFromContainer and GetSelector give for a container:
\* no parent workload, a parent without selector, or both
ParentWorkloads == {"error", "noSelector", "ok"}

\* parentWL.GenerateWlid(clusterName) of the parent workload of the models' pod
GenerateWlid(container) ==
    "wlid://cluster-c/namespace-" \o container.Namespace \o "/deployment-" \o container.PodName

\* One run of the add branch of ContainerCallback past its check: the
\* container, the position in handleContainerStarted, and the sentinels queued
\* on watchedContainer.SyncChannel
NewAmCallback(c) == [container |-> c, pc |-> "handleContainerStarted", SyncChannel |-> 0]

\* ContainerCallback, case EventTypeAddContainer, to line 97 of
\* handleContainerStarted: a runtime id in the channel map is discarded,
\* otherwise the channel is made and registered. The callback runs on the
\* goroutine that delivers the notification.
AmContainerCallbackAdd(c) ==
    /\ IF Has(amWatchedContainerChannels, c.ContainerID)
       THEN UNCHANGED <<amWatchedContainerChannels, amCallbacks>>
       ELSE /\ Len(amCallbacks) < MaxAmCallbacks
            /\ amCallbacks' = Append(amCallbacks, NewAmCallback(c))
            /\ amWatchedContainerChannels' =
                  Set(amWatchedContainerChannels, c.ContainerID, Len(amCallbacks) + 1)
    /\ UNCHANGED <<containerAndPodToWLIDMap, containerAndPodToEventsMap, amSavers, amSaved,
                   amRead, amRemoved>>
    /\ UNCHANGED <<r1012Vars, lifecycleVars, dispatchVars, retryVars, raceVars, r0006Vars,
                   r1003Vars, r1002Vars, httpVars, busVars, cacheVars>>

\* ContainerCallback, case EventTypeRemoveContainer: the case is empty
AmContainerCallbackRemove(c) ==
    /\ amRemoved' = amRemoved \cup {c.ContainerID}
    /\ UNCHANGED <<amWatchedContainerChannels, containerAndPodToWLIDMap,
                   containerAndPodToEventsMap, amCallbacks, amSavers, amSaved, amRead>>
    /\ UNCHANGED <<r1012Vars, lifecycleVars, dispatchVars, retryVars, raceVars, r0006Vars,
                   r1003Vars, r1002Vars, httpVars, busVars, cacheVars>>

\* handleContainerStarted, lines 100-121: without a parent workload or without
\* its selector the function returns; otherwise it saves the WLID and goes on
\* to monitorContainer
AmHandleContainerStarted(i, parentWL) ==
    /\ i \in DOMAIN amCallbacks /\ amCallbacks[i].pc = "handleContainerStarted"
    /\ IF parentWL # "ok"
       THEN /\ amCallbacks' = [amCallbacks EXCEPT ![i].pc = "returned"]
            /\ UNCHANGED containerAndPodToWLIDMap
       ELSE /\ amCallbacks' = [amCallbacks EXCEPT ![i].pc = "monitorContainer"]
            /\ containerAndPodToWLIDMap' =
                  Set(containerAndPodToWLIDMap, ContainerAndPodKey(amCallbacks[i].container),
                      GenerateWlid(amCallbacks[i].container))
    /\ UNCHANGED <<amWatchedContainerChannels, containerAndPodToEventsMap, amSavers, amSaved,
                   amRead, amRemoved>>
    /\ UNCHANGED <<r1012Vars, lifecycleVars, dispatchVars, retryVars, raceVars, r0006Vars,
                   r1003Vars, r1002Vars, httpVars, busVars, cacheVars>>

\* handleNetworkEvents: the read of the events kept under the container's key,
\* beside the events kept then under the key SaveNetworkEvent uses for it
handleNetworkEvents(container) ==
    [events |-> GetSlice(containerAndPodToEventsMap, ContainerAndPodKey(container)),
     saved |-> GetSlice(containerAndPodToEventsMap,
                        SaveKey(container.ContainerName, container.PodName))]

\* handleContainerStopped
handleContainerStopped(container) ==
    /\ containerAndPodToWLIDMap' = Delete(containerAndPodToWLIDMap, ContainerAndPodKey(container))
    /\ containerAndPodToEventsMap' =
          Delete(containerAndPodToEventsMap, ContainerAndPodKey(container))
    /\ amWatchedContainerChannels' = Delete(amWatchedContainerChannels, container.ContainerID)

\* monitorContainer, one turn of its select, with what follows its return in
\* handleContainerStarted (line 127): a sentinel on SyncChannel ends the loop
\* and handleContainerStopped runs; a tick handles the network events and the
\* loop goes on.
AmMonitorContainer(i) ==
    /\ i \in DOMAIN amCallbacks /\ amCallbacks[i].pc = "monitorContainer"
    /\ LET container == amCallbacks[i].container IN
       /\ amRead' = Set(amRead, container.ContainerID, handleNetworkEvents(container))
       /\ IF amCallbacks[i].SyncChannel > 0
          THEN /\ amCallbacks' = [amCallbacks EXCEPT ![i].pc = "returned",
                                                     ![i].SyncChannel = @ - 1]
               /\ handleContainerStopped(container)
          ELSE UNCHANGED <<amCallbacks, amWatchedContainerChannels,
                           containerAndPodToWLIDMap, containerAndPodToEventsMap>>
    /\ UNCHANGED <<amSavers, amSaved, amRemoved>>
    /\ UNCHANGED <<r1012Vars, lifecycleVars, dispatchVars, retryVars, raceVars, r0006Vars,
                   r1003Vars, r1002Vars, httpVars, busVars, cacheVars>>

\* One step of the goroutine that runs the add callback i
AmCallbackStep(i) ==
    \/ \E parentWL \in ParentWorkloads : AmHandleContainerStarted(i, parentWL)
    \/ AmMonitorContainer(i)

\* The goroutines that call SaveNetworkEvent
AmSaverTasks == {"saver1", "saver2"}

\* SaveNetworkEvent, lines 82-83: the Get of the stored slice and the append to
\* the local copy. The event is named by its number among the saved ones.
AmSaveNetworkEventGet(task, c) ==
    /\ amSavers[task] = Nil
    /\ Len(amSaved) < MaxNetworkEvents
    /\ LET key == SaveKey(c.ContainerName, c.PodName)
           networkEvent == Len(amSaved) + 1
       IN /\ amSavers' = [amSavers EXCEPT ![task] =
                             [key |-> key,
                              networkEvents |->
                                  Append(GetSlice(containerAndPodToEventsMap, key), networkEvent)]]
          /\ amSaved' = Append(amSaved, [container |-> c, key |-> key, event |-> networkEvent])
    /\ UNCHANGED <<amWatchedContainerChannels, containerAndPodToWLIDMap,
                   containerAndPodToEventsMap, amCallbacks, amRead, amRemoved>>
    /\ UNCHANGED <<r1012Vars, lifecycleVars, dispatchVars, retryVars, raceVars, r0006Vars,
                   r1003Vars, r1002Vars, httpVars, busVars, cacheVars>>

\* SaveNetworkEvent, line 85: the Set of the local copy
AmSaveNetworkEventSet(task) ==
    /\ amSavers[task] # Nil
    /\ containerAndPodToEventsMap' =
          Set(containerAndPodToEventsMap, amSavers[task].key, amSavers[task].networkEvents)
    /\ amSavers' = [amSavers EXCEPT ![task] = Nil]
    /\ UNCHANGED <<amWatchedContainerChannels, containerAndPodToWLIDMap, amCallbacks, amSaved,
                   amRead, amRemoved>>
    /\ UNCHANGED <<r1012Vars, lifecycleVars, dispatchVars, retryVars, raceVars, r0006Vars,
                   r1003Vars, r1002Vars, httpVars, busVars, cacheVars>>

(***************************************************************************)
(* Specifications                                                          *)
(***************************************************************************)
Init ==
    /\ trackedContainers = {}
    /\ watchedContainerChannels = <<>>
    /\ sessions = <<>>
    /\ removeDelivered = {}
    /\ lastReport = Nil
    /\ calls = <<>>
    /\ effects = <<>>
    /\ fed = <<>>
    /\ waiting = [callback \in WaitingCallbacks |-> Nil]
    /\ instanceIDBackoff = <<>>
    /\ ctxCancelled = FALSE
    /\ r1003Tasks = [task \in R1003Tasks |-> R1003TaskIdle]
    /\ r0006Call = Nil
    /\ rule1003 = CreateRuleR1003MaliciousSSHConnection
    /\ r1003Call = Nil
    /\ r1002Call = Nil
    /\ httpExporter = Nil
    /\ httpInit = Nil
    /\ httpNow = 0
    /\ httpLog = <<>>
    /\ exporterBus = Nil
    /\ busSend = Nil
    /\ podToSlug = <<>>
    /\ slugToAppProfile = <<>>
    /\ slugToPods = <<>>
    /\ allProfiles = {}
    /\ clusterProfiles = {}
    /\ cacheEvent = Nil
    /\ cacheLookup = Nil
    /\ r1003Params = Nil
    /\ rule1012 = CreateRuleR1012HardlinkCreatedOverSensitiveFile
    /\ r1012Call = Nil
    /\ r1012Added = {}
    /\ amWatchedContainerChannels = <<>>
    /\ containerAndPodToWLIDMap = <<>>
    /\ containerAndPodToEventsMap = <<>>
    /\ amCallbacks = <<>>
    /\ amSavers = [task \in AmSaverTasks |-> Nil]
    /\ amSaved = <<>>
    /\ amRead = <<>>
    /\ amRemoved = {}

\* The lifecycle tracker: notifications and the goroutines they start
Next ==
    \/ \E c \in Containers : Len(sessions) < MaxSessions /\ ContainerCallbackAdd(c)
    \/ \E c \in Containers : ContainerCallbackRemove(c)
    \/ \E s \in 1..MaxSessions : TaskStep(s)

Spec == Init /\ [][Next]_vars

\* A container is present from its add notification to its remove notification
Present(id) ==
    \E s \in DOMAIN sessions : sessions[s].ContainerID = id /\ s \notin removeDelivered

\* The lifecycle tracker under a stream that reports each container's add once
\* and its remove once, after the add
NextStream ==
    \/ \E c \in Containers :
          /\ Len(sessions) < MaxSessions
          /\ ~Present(c.ContainerID)
          /\ ContainerCallbackAdd(c)
    \/ \E c \in Containers : Present(c.ContainerID) /\ ContainerCallbackRemove(c)
    \/ \E s \in 1..MaxSessions : TaskStep(s)

\* The scheduler runs every goroutine that can take a step; the notifications
\* come from the environment and need not come at all.
FairSpec == Init /\ [][NextStream]_vars /\ \A s \in 1..MaxSessions : WF_vars(TaskStep(s))

\* The dispatcher beside one container session, with rules that return nil
NextDispatch ==
    \/ \E c \in Containers : sessions = <<>> /\ ContainerCallbackAdd(c)
    \/ \E c \in Containers : ContainerCallbackRemove(c)
    \/ \E s \in DOMAIN sessions : TaskStep(s)
    \/ \E k \in K8sContainerIDs, rules \in RuleLists :
          ReportFileExec(k, rules, [i \in 1..Len(rules) |-> "nil"])
    \/ \E k \in K8sContainerIDs, rules \in RuleLists : ReportFileOpen(k, rules)
    \/ \E k \in K8sContainerIDs, rules \in RuleLists : ReportCapability(k, rules)
    \/ \E k \in K8sContainerIDs, rules \in ShortRuleLists : ReportNetworkEvent(k, rules)
    \/ \E k \in K8sContainerIDs, rules \in ShortRuleLists : ReportDNSEvent(k, rules)

SpecDispatch == Init /\ [][NextDispatch]_vars

\* The dispatcher on the exec events of the two containers of a pod, with
\* every list of rules and everything the rules' ProcessEvent may do
NextProcessEvent ==
    \E k \in EventKeys, rules \in RuleLists :
        \E results \in ResultLists(ExecveEventType, rules) : ReportFileExec(k, rules, results)

SpecProcessEvent == Init /\ [][NextProcessEvent]_vars

\* The retry loops beside one container session up to its monitoring: the
\* callbacks that wait for their container, the instance-id loop, and the
\* cancellation of the root context
NextRetry ==
    \/ \E c \in Containers : sessions = <<>> /\ ContainerCallbackAdd(c)
    \/ \E s \in DOMAIN sessions : StartRuleManager(s)
    \/ \E s \in DOMAIN sessions : EnsureInstanceIDRetry(s)
    \/ \E s \in DOMAIN sessions : EnsureInstanceID(s)
    \/ \E callback \in WaitingCallbacks, k \in K8sContainerIDs :
          WaitForContainerCall(callback, k)
    \/ \E callback \in WaitingCallbacks : WaitForContainerRetry(callback)
    \/ CancelRootContext

SpecRetry == Init /\ [][NextRetry]_vars

\* The service-account-token evaluator on every event and lookup result
NextR0006 ==
    \E eventType \in {OpenEventType, ExecveEventType}, event \in R0006Events,
       ap \in {Nil} \cup ApplicationProfiles :
        R0006Process(eventType, event, ap)

SpecR0006 == Init /\ [][NextR0006]_vars

\* The malicious-SSH evaluator: SetParameters after construction, then events
NextR1003 ==
    \/ \E param \in AllowedPortsParams : R1003SetParameters(param)
    \/ \E call \in R1003Calls : R1003Process(call[1], call[2])

SpecR1003 == Init /\ [][NextR1003]_vars

\* The malicious-SSH evaluator on every event, its allow-list being the
\* default or one port of a well-typed parameter
NextR1003Ports ==
    \/ \E param \in { p \in AllowedPortsParams :
                        /\ p.kind = "list" /\ Len(p.items) = 1
                        /\ p.items[1].type = "float64" } : R1003SetParameters(param)
    \/ \E call \in R1003Calls : R1003Process(call[1], call[2])

SpecR1003Ports == Init /\ [][NextR1003Ports]_vars

\* The malicious-SSH evaluator called by the task of the open events and the
\* task of the network events, each running on its own
NextR1003Race ==
    \/ \E task \in R1003Tasks : \E event \in R1003TaskEvents(task) : R1003Enter(task, event)
    \/ \E task \in R1003Tasks : R1003Step(task)

SpecR1003Race == Init /\ [][NextR1003Race]_vars

\* The kernel-module-load evaluator on every event
NextR1002 ==
    \E eventType \in {SyscallEventType, OpenEventType}, event \in R1002Events :
        R1002Process(eventType, event)

SpecR1002 == Init /\ [][NextR1002]_vars

\* The construction of an HTTP exporter from every config
NextHTTPInit ==
    \E config \in HTTPExporterConfigs : InitHTTPExporter(config)

SpecHTTPInit == Init /\ [][NextHTTPInit]_vars

\* One HTTP exporter: its construction, then alerts as the clock advances
NextHTTP ==
    \/ httpExporter = Nil /\ \E config \in HTTPRateConfigs : InitHTTPExporter(config)
    \/ HTTPSendRuleAlert(TestFailedRule)
    \/ HTTPSendMalwareAlert(TestMalwareDescription)
    \/ HTTPTick

SpecHTTP == Init /\ [][NextHTTP]_vars

\* The exporter bus: its construction from every config, then alerts
NextBus ==
    \/ /\ exporterBus = Nil
       /\ \E exportersConfig \in ExportersConfigs, env \in BusEnvs,
             alertMans \in [1..MaxUrls -> BOOLEAN], syslogExp \in BOOLEAN, csvExp \in BOOLEAN :
               InitExporters(exportersConfig, env, alertMans, syslogExp, csvExp)
    \/ BusSendRuleAlert(TestFailedRule)
    \/ BusSendMalwareAlert(TestMalwareDescription)

SpecBus == Init /\ [][NextBus]_vars

\* The application profile cache: watch events one at a time, and lookups
NextCache ==
    \/ \E obj \in Pods \cup Profiles, read \in Reads : AddHandler(obj, read)
    \/ \E obj \in Pods \cup Profiles, read \in Reads : ModifyHandler(obj, read)
    \/ \E obj \in Pods \cup Profiles : DeleteHandler(obj)
    \/ \E pod \in Pods : LookupByEvent(pod)

SpecCache == Init /\ [][NextCache]_vars

\* The lifecycle tracker under the stream of FairSpec, beside the owner of the
\* root context, who may cancel it at any time
NextShutdown ==
    \/ NextStream
    \/ CancelRootContext

FairSpecShutdown ==
    Init /\ [][NextShutdown]_vars /\ \A s \in 1..MaxSessions : WF_vars(TaskStep(s))

\* The hardlink evaluator on every parameter value, event and allow-list
NextR1012 ==
    \/ \E param \in AdditionalPathsParams : R1012SetParameters(param)
    \/ \E call \in R1012Calls, policy \in R1012Policies :
          R1012Process(call[1], call[2], policy)

SpecR1012 == Init /\ [][NextR1012]_vars

\* The network manager: the container notifications, the goroutines of the
\* add callbacks, and the goroutines that save network events
NextNet ==
    \/ \E c \in Containers : AmContainerCallbackAdd(c)
    \/ \E c \in Containers : AmContainerCallbackRemove(c)
    \/ \E i \in 1..MaxAmCallbacks : AmCallbackStep(i)
    \/ \E task \in AmSaverTasks, c \in Containers : AmSaveNetworkEventGet(task, c)
    \/ \E task \in AmSaverTasks : AmSaveNetworkEventSet(task)

SpecNet == Init /\ [][NextNet]_vars

\* The scheduler runs every goroutine that can take a step
FairSpecNet ==
    Init /\ [][NextNet]_vars /\ \A i \in 1..MaxAmCallbacks : WF_vars(AmCallbackStep(i))

(***************************************************************************)
(* Properties                                                              *)
(***************************************************************************)

\* C1: at every instant, each runtime container id has at most one live
\* monitoring session (a started startRuleManager that has not finished).
AtMostOneSessionPerRuntimeId ==
    \A id \in ContainerIDs : Cardinality(LiveSessionsOf(id)) <= 1

\* C2: once a remove notification was delivered for the runtime id of a session,
\* that session's task eventually finishes its tear-down.
RemoveLeadsToTearDown ==
    \A s \in 1..MaxSessions :
        (s \in removeDelivered) ~> (s \in DOMAIN sessions /\ sessions[s].pc = "done")

DispatchOnlyRequiredTypes ==
    \A i \in DOMAIN calls :
        LET rule == lastReport.rules[calls[i].rule] IN
        /\ rule # Nil
        /\ calls[i].eventType = lastReport.eventType
        /\ calls[i].eventType \in { rule.RequiredEventTypes[j] : j \in DOMAIN rule.RequiredEventTypes }

\* The dispatcher called one rule of a list and skipped another, non-nil one.
DispatchFilterWitness ==
    /\ calls # <<>>
    /\ \E i \in DOMAIN lastReport.rules :
          /\ lastReport.rules[i] # Nil
          /\ \A k \in DOMAIN calls : calls[k].rule # i

\* The calls the dispatcher owes an event of type eventType: the non-nil rules of
\* the list that declare the type, in list order.
ExpectedCalls(rules, eventType) ==
    LET Declares(i) ==
            /\ rules[i] # Nil
            /\ eventType \in { rules[i].RequiredEventTypes[j] :
                                 j \in DOMAIN rules[i].RequiredEventTypes }
        picked == SelectSeq([i \in 1..Len(rules) |-> i], Declares)
    IN [k \in 1..Len(picked) |-> [rule |-> picked[k], eventType |-> eventType]]

\* C5: after a Report* callback for a tracked container, every rule bound to the
\* pod that declares the event's type was called exactly once, in list order.
EveryDeclaredRuleIsCalled ==
    (lastReport # Nil /\ lastReport.tracked)
    => calls = ExpectedCalls(lastReport.rules, lastReport.eventType)

UnderTokenPrefix(path) ==
    \/ HasPrefix(path, "/run/secrets/kubernetes.io/serviceaccount")
    \/ HasPrefix(path, "/var/run/secrets/kubernetes.io/serviceaccount")

\* A ProcessEvent call of R0006 with an open event on a token-prefixed path
R0006TokenOpenCall ==
    /\ r0006Call # Nil
    /\ r0006Call.eventType = OpenEventType
    /\ r0006Call.event.kind = "open"
    /\ UnderTokenPrefix(r0006Call.event.Path)

\* C6: an open event on a token-prefixed path with no profile in the cache
\* returns a failure whose error is "Application profile is missing".
MissingProfileFails ==
    (R0006TokenOpenCall /\ r0006Call.ap = Nil)
    => (r0006Call.res # Nil /\ r0006Call.res.Err = "Application profile is missing")

\* The rule was called on /var/run/.../token with no profile and failed.
MissingProfileWitness ==
    /\ R0006TokenOpenCall
    /\ r0006Call.event.Path = VarTokenPath
    /\ r0006Call.ap = Nil
    /\ r0006Call.res # Nil

\* C7: with a profile whose status is neither ready nor completed the rule
\* returns what it returns with no profile: a failure exactly when that fails,
\* with the same error.
UnreadyProfileNeverSuppresses ==
    (r0006Call # Nil /\ r0006Call.ap # Nil
        /\ r0006Call.ap.Status \notin {"ready", "completed"})
    => LET without == R0006ProcessEvent(r0006Call.eventType, r0006Call.event, Nil) IN
       /\ (r0006Call.res = Nil) <=> (without = Nil)
       /\ r0006Call.res # Nil => r0006Call.res.Err = without.Err

\* The opens of the event's container in the profile of the last call
R0006ListedOpens ==
    LET c == getContainerFromApplicationProfile(r0006Call.ap, r0006Call.event.Container) IN
    IF c = Nil THEN {} ELSE { c.Opens[i] : i \in DOMAIN c.Opens }

\* C8 as stated: with a profile present, an open on a token-prefixed path fails
\* unless that exact path is among the container's opens in the profile.
OnlyExactPathSuppresses ==
    (R0006TokenOpenCall /\ r0006Call.ap # Nil)
    => ((r0006Call.res = Nil) <=> (r0006Call.event.Path \in R0006ListedOpens))

\* C8 amended: with a profile present, an open on a token-prefixed path fails
\* unless the container's opens in the profile hold some token-prefixed path,
\* the event's own or another one.
AnyTokenPathSuppresses ==
    (R0006TokenOpenCall /\ r0006Call.ap # Nil)
    => ((r0006Call.res = Nil) <=> (\E p \in R0006ListedOpens : UnderTokenPrefix(p)))

\* The profile lists only ca.crt and the open of the token passed.
OtherTokenPathWitness ==
    /\ R0006TokenOpenCall
    /\ r0006Call.ap # Nil
    /\ r0006Call.event.Path = TokenPath
    /\ R0006ListedOpens = {CaCertPath}
    /\ r0006Call.res = Nil

R1003IsIdle(rule) ==
    ~rule.accessRelatedFiles /\ rule.sshInitiatorPid = 0 /\ rule.configFileAccessTimeStamp = 0

Abs(x) == IF x >= 0 THEN x ELSE -x

\* C9: from idle, an open of an SSH file by pid p at T arms the evaluator with
\* {p, T}; armed, a network event of the same pid, OUTGOING, TCP, to a port not
\* allowed, within 2 s of T returns a failure and leaves the evaluator idle; and
\* idle, a network event returns no failure and leaves it idle.
SSHDetectsAndReturnsToIdle ==
    [][(r1003Call' # Nil /\ R1003Process(r1003Call'.eventType, r1003Call'.event)) =>
            LET eventType == r1003Call'.eventType
                event == r1003Call'.event
            IN
            /\ (/\ R1003IsIdle(rule1003)
                /\ eventType = OpenEventType /\ event.kind = "open"
                /\ event.Path = "/etc/ssh/ssh_config")
               => /\ r1003Call'.res = Nil
                  /\ rule1003'.accessRelatedFiles
                  /\ rule1003'.sshInitiatorPid = event.Pid
                  /\ rule1003'.configFileAccessTimeStamp = event.Timestamp
            /\ (/\ rule1003.accessRelatedFiles
                /\ eventType = NetworkEventType /\ event.kind = "network"
                /\ event.Pid = rule1003.sshInitiatorPid
                /\ event.PktType = "OUTGOING" /\ event.Proto = "TCP"
                /\ \A i \in DOMAIN rule1003.allowedPorts : rule1003.allowedPorts[i] # event.Port
                /\ Abs(event.Timestamp - rule1003.configFileAccessTimeStamp)
                     <= MaxTimeDiffInSeconds * TicksPerSecond)
               => /\ r1003Call'.res # Nil
                  /\ R1003IsIdle(rule1003')
            /\ (R1003IsIdle(rule1003) /\ eventType = NetworkEventType)
               => /\ r1003Call'.res = Nil
                  /\ R1003IsIdle(rule1003')]_vars

\* A network event was answered with a failure and the evaluator is idle again.
SSHFailureWitness ==
    /\ r1003Call # Nil
    /\ r1003Call.eventType = NetworkEventType
    /\ r1003Call.res # Nil
    /\ R1003IsIdle(rule1003)

\* C10: armed at ts, a network event more than 2 s after ts returns no failure
\* and resets the evaluator to idle.
LateNetworkEventNeverFails ==
    [][(/\ r1003Call' # Nil
        /\ R1003Process(r1003Call'.eventType, r1003Call'.event)
        /\ rule1003.accessRelatedFiles
        /\ r1003Call'.eventType = NetworkEventType /\ r1003Call'.event.kind = "network"
        /\ r1003Call'.event.Timestamp - rule1003.configFileAccessTimeStamp
             > MaxTimeDiffInSeconds * TicksPerSecond)
       => (r1003Call'.res = Nil /\ R1003IsIdle(rule1003'))]_vars

\* C11: a syscall event returns a failure of critical priority exactly when its
\* syscall set holds init_module or finit_module; an event of any other type
\* returns no failure.
KernelModuleLoadFailsIff ==
    r1002Call # Nil =>
        IF r1002Call.eventType = SyscallEventType /\ r1002Call.event.kind = "syscall"
        THEN LET loads == \E i \in DOMAIN r1002Call.event.Syscalls :
                              r1002Call.event.Syscalls[i] \in {"init_module", "finit_module"}
             IN /\ (r1002Call.res # Nil) <=> loads
                /\ r1002Call.res # Nil => r1002Call.res.RulePriority = RulePriorityCritical
        ELSE r1002Call.res = Nil

AlertLimitReached == [rule_name |-> "AlertLimitReached", message |-> "Alert limit reached"]

\* The log entries whose payload went out / went out as the alert itself / as
\* the limit notice
HTTPPayloads == { i \in DOMAIN httpLog : httpLog[i].sent # Nil }
HTTPNormalPayloads == { i \in HTTPPayloads : httpLog[i].sent # AlertLimitReached }
HTTPLimitNotices == { i \in HTTPPayloads : httpLog[i].sent = AlertLimitReached }

\* The position of log entry i among the alerts of its 60-second window
HTTPPositionInWindow(i) ==
    Cardinality({ j \in 1..i : HTTPWindow(httpLog[j].time) = HTTPWindow(httpLog[i].time) })

\* C12 as stated: in every span of 60 seconds, wherever it starts, at most
\* MaxAlertsPerMinute + 1 payloads are sent, at most one of them a limit notice.
RateLimitInAnySpan ==
    httpExporter # Nil =>
        \A t \in 0 .. (MaxWindows * TicksPerMinute) :
            LET InSpan(i) == t <= httpLog[i].time /\ httpLog[i].time < t + TicksPerMinute IN
            /\ Cardinality({ i \in HTTPPayloads : InSpan(i) })
                 <= httpExporter.config.MaxAlertsPerMinute + 1
            /\ Cardinality({ i \in HTTPLimitNotices : InSpan(i) }) <= 1

\* C12 amended: in every 60-second window of the exporter's counter, at most
\* MaxAlertsPerMinute alerts and at most one limit notice are sent.
RateLimitInEachWindow ==
    httpExporter # Nil =>
        \A w \in 0 .. (MaxWindows - 1) :
            LET InWindow(i) == HTTPWindow(httpLog[i].time) = w IN
            /\ Cardinality({ i \in HTTPNormalPayloads : InWindow(i) })
                 <= httpExporter.config.MaxAlertsPerMinute
            /\ Cardinality({ i \in HTTPLimitNotices : InWindow(i) }) <= 1

\* A window took more alerts than the limit and sent exactly the limit and the notice.
RateLimitWitness ==
    /\ httpExporter # Nil
    /\ \E w \in 0 .. (MaxWindows - 1) :
          LET InWindow(i) == HTTPWindow(httpLog[i].time) = w IN
          /\ Cardinality({ i \in DOMAIN httpLog : InWindow(i) })
               > httpExporter.config.MaxAlertsPerMinute + 1
          /\ Cardinality({ i \in HTTPPayloads : InWindow(i) })
               = httpExporter.config.MaxAlertsPerMinute + 1

\* C13: the first alert of a window over MaxAlertsPerMinute goes out as the
\* synthetic AlertLimitReached alert instead, and every later alert of that
\* window sends nothing.
LimitNoticeOnceThenSilence ==
    httpExporter # Nil =>
        \A i \in DOMAIN httpLog :
            LET k == HTTPPositionInWindow(i) IN
            /\ k = httpExporter.config.MaxAlertsPerMinute + 1
               => httpLog[i].sent = AlertLimitReached
            /\ k > httpExporter.config.MaxAlertsPerMinute + 1
               => httpLog[i].sent = Nil

\* With MaxAlertsPerMinute = 1, three alerts in one window went out as the
\* alert, the notice and nothing.
LimitNoticeWitness ==
    /\ httpExporter # Nil /\ httpExporter.config.MaxAlertsPerMinute = 1
    /\ Len(httpLog) >= 3
    /\ HTTPWindow(httpLog[3].time) = HTTPWindow(httpLog[1].time)
    /\ httpLog[1].sent = httpLog[1].alert
    /\ httpLog[2].sent = AlertLimitReached
    /\ httpLog[3].sent = Nil

\* C14: once the limit was reached in a window, the alerts of a later window
\* are counted afresh: the first MaxAlertsPerMinute of them go out as themselves,
\* and the limit notice comes only after them.
WindowRollOverResets ==
    httpExporter # Nil =>
        \A i \in DOMAIN httpLog :
            (\E j \in 1..(i-1) :
                /\ httpLog[j].sent = AlertLimitReached
                /\ HTTPWindow(httpLog[j].time) < HTTPWindow(httpLog[i].time))
            => LET k == HTTPPositionInWindow(i) IN
               /\ k <= httpExporter.config.MaxAlertsPerMinute
                  => httpLog[i].sent = httpLog[i].alert
               /\ k = httpExporter.config.MaxAlertsPerMinute + 1
                  => httpLog[i].sent = AlertLimitReached

\* The limit was reached in one window, and in a later one the first alert went
\* out as itself and the next one as the notice.
WindowRollOverWitness ==
    /\ httpExporter # Nil /\ httpExporter.config.MaxAlertsPerMinute = 1
    /\ Len(httpLog) = 4
    /\ httpLog[2].sent = AlertLimitReached
    /\ HTTPWindow(httpLog[3].time) > HTTPWindow(httpLog[2].time)
    /\ httpLog[3].sent = httpLog[3].alert
    /\ httpLog[4].sent = AlertLimitReached

\* C18: InitHTTPExporter fails exactly when the URL is empty or the method is
\* given and neither POST nor PUT; when it succeeds, every option left out has
\* its default and every option given is kept.
InitHTTPExporterValidates ==
    httpInit # Nil =>
        LET config == httpInit.config IN
        /\ httpInit.err <=> (config.URL = "" \/ config.Method \notin {"", "POST", "PUT"})
        /\ httpInit.err => httpExporter = Nil
        /\ ~httpInit.err =>
              /\ httpExporter # Nil
              /\ httpExporter.config.URL = config.URL
              /\ httpExporter.config.Method
                   = (IF config.Method = "" THEN "POST" ELSE config.Method)
              /\ httpExporter.config.TimeoutSeconds
                   = (IF config.TimeoutSeconds = 0 THEN 1 ELSE config.TimeoutSeconds)
              /\ httpExporter.config.MaxAlertsPerMinute
                   = (IF config.MaxAlertsPerMinute = 0 THEN 10000
                      ELSE config.MaxAlertsPerMinute)
              /\ httpExporter.config.Headers
                   = (IF config.Headers = Nil THEN <<>> ELSE config.Headers)

\* A config with the method DELETE was refused.
InitHTTPExporterWitness ==
    /\ httpInit # Nil
    /\ httpInit.config.URL # "" /\ httpInit.config.Method = "DELETE"
    /\ httpInit.err /\ httpExporter = Nil

\* An entry of the bus that holds an exporter (not the nil *HTTPExporter)
BusUsable(i) ==
    ~(exporterBus.exporters[i].kind = "http" /\ exporterBus.exporters[i].exporter = Nil)

BusUsableEntries ==
    SelectSeq([i \in 1..Len(exporterBus.exporters) |-> i], BusUsable)

BusRank(entry) ==
    CASE entry.kind = "alertmanager" -> 1
      [] entry.kind = "stdout" -> 2
      [] entry.kind = "syslog" -> 3
      [] entry.kind = "csv" -> 4
      [] entry.kind = "http" -> 5

\* C15: every alert sent on the bus is received exactly once by each exporter of
\* the bus, in the order of the list, and the list is in construction order:
\* alert-manager exporters in URL order, then stdout, syslog, CSV, HTTP.
BusDeliversInConstructionOrder ==
    busSend # Nil =>
        /\ busSend.received = BusUsableEntries
        /\ \A i, j \in DOMAIN exporterBus.exporters :
              i < j =>
                LET a == exporterBus.exporters[i]
                    b == exporterBus.exporters[j]
                IN \/ BusRank(a) < BusRank(b)
                   \/ a.kind = "alertmanager" /\ b.kind = "alertmanager" /\ a.n < b.n

\* A malware alert went to two alert-manager exporters, stdout and HTTP, in that order.
BusDeliveryWitness ==
    /\ busSend # Nil /\ busSend.method = "SendMalwareAlert"
    /\ Len(busSend.received) = 4
    /\ exporterBus.exporters[1].kind = "alertmanager"
    /\ exporterBus.exporters[2].kind = "alertmanager"
    /\ exporterBus.exporters[3].kind = "stdout"
    /\ exporterBus.exporters[4].kind = "http"
    /\ httpLog # <<>>

\* C16: an alert sent on the bus reaches every exporter that can take it and
\* the send returns to its caller, also when an entry of the bus fails (the HTTP
\* exporter whose initialization returned an error).
BusFailureIsContained ==
    busSend # Nil =>
        /\ ~busSend.panicked
        /\ busSend.received = BusUsableEntries

\* C17: InitExporters returns a bus only when some exporter was initialized,
\* and every entry of the bus it returns is an initialized exporter.
BusHoldsOnlyInitializedExporters ==
    (exporterBus # Nil /\ ~exporterBus.panicked) =>
        /\ BusUsableEntries # <<>>
        /\ \A i \in DOMAIN exporterBus.exporters : BusUsable(i)

\* C19: a pod-delete event that removes the last cached pod of slug s leaves,
\* at the end of that one event, no entry for s in slugToAppProfile and no
\* entry for the pod in podToSlug.
PodDeleteEvictsProfile ==
    [][\A pod \in Pods :
          LET podName == UnstructuredUniqueName(pod) IN
          (/\ DeleteHandler(pod)
           /\ Has(podToSlug, podName)
           /\ \A other \in DOMAIN podToSlug :
                 podToSlug[other] = podToSlug[podName] => other = podName)
          => /\ ~Has(slugToAppProfile', podToSlug[podName])
             /\ ~Has(podToSlug', podName)]_vars

\* The last cached pod of its slug was deleted while another pod stays cached.
PodDeleteWitness ==
    /\ cacheEvent # Nil
    /\ cacheEvent.handler = "DeleteHandler" /\ cacheEvent.obj.Kind = "Pod"
    /\ cacheEvent.wasLast
    /\ ~Has(podToSlug, UnstructuredUniqueName(cacheEvent.obj))
    /\ DOMAIN podToSlug # {}

\* The pod of the last lookup is cached
LookupPodCached ==
    /\ cacheLookup # Nil
    /\ Has(podToSlug, UniqueName(cacheLookup.namespace, cacheLookup.name))

\* C20: a lookup with the namespace and pod name of an event resolves the
\* profile of the pod's slug: when the pod is cached under slug s and the
\* profile for s has just arrived (add or modify event, the storage returning
\* the object) the lookup returns that profile, and it returns nil only when
\* slugToAppProfile has no entry for s.
LookupByEventResolvesProfile ==
    LookupPodCached =>
        LET s == podToSlug[UniqueName(cacheLookup.namespace, cacheLookup.name)] IN
        /\ (/\ cacheEvent.handler \in {"AddHandler", "ModifyHandler"}
            /\ cacheEvent.obj.Kind = "ApplicationProfile"
            /\ cacheEvent.read = "ok"
            /\ UnstructuredUniqueName(cacheEvent.obj) = s)
           => cacheLookup.res = FullProfile(cacheEvent.obj.Namespace, cacheEvent.obj.Name)
        /\ cacheLookup.res = Nil => ~Has(slugToAppProfile, s)

R1003CallsNeverOverlap ==
    \A t1, t2 \in R1003Tasks :
        (r1003Tasks[t1].pc # "idle" /\ r1003Tasks[t2].pc # "idle") => t1 = t2

\* What the dispatcher did after the ProcessEvent call at position p, up to
\* the next ProcessEvent call
EffectsOfCall(p) ==
    LET later == { q \in (p + 1)..Len(effects) : effects[q].call = "ProcessEvent" }
        last == IF later = {} THEN Len(effects)
                ELSE (CHOOSE q \in later : \A r \in later : q <= r) - 1
    IN SubSeq(effects, p + 1, last)

CountCalls(done, name) == Cardinality({ i \in DOMAIN done : done[i].call = name })

\* C23: after each ProcessEvent call that returned, exactly one counter of the
\* rule is incremented: the alert counter when the result is a failure, which
\* is handed to the exporter once, and the processed counter when it is nil.
OneCounterPerCall ==
    \A p \in DOMAIN effects :
        (effects[p].call = "ProcessEvent" /\ effects[p].res # "panic") =>
            LET after == EffectsOfCall(p) IN
            IF effects[p].res = "failure"
            THEN /\ CountCalls(after, "SendRuleAlert") = 1
                 /\ CountCalls(after, "ReportRuleAlert") = 1
                 /\ CountCalls(after, "ReportRuleProcessed") = 0
            ELSE /\ CountCalls(after, "SendRuleAlert") = 0
                 /\ CountCalls(after, "ReportRuleAlert") = 0
                 /\ CountCalls(after, "ReportRuleProcessed") = 1

\* C24: a panic of a rule's ProcessEvent never leaves the dispatcher: it is
\* counted as an error of that rule, and every rule of the list that declares
\* the event's type is still called.
PanicIsContained ==
    (lastReport # Nil /\ lastReport.callback = "ReportFileExec") =>
        /\ \A p \in DOMAIN effects : effects[p].call # "panic"
        /\ \A p \in DOMAIN effects :
              (effects[p].call = "ProcessEvent" /\ effects[p].res = "panic") =>
                  /\ p < Len(effects)
                  /\ effects[p + 1].call = "ReportRuleError"
                  /\ effects[p + 1].rule = effects[p].rule
        /\ calls = ExpectedCalls(lastReport.rules, lastReport.eventType)

\* C25: a callback called with a workload key that is not tracked returns in
\* the step it is called in: no callback is ever inside waitForContainer's
\* retry loop, waiting for the key to become tracked.
CallbacksNeverWait ==
    \A callback \in WaitingCallbacks : waiting[callback] = Nil

\* C26: every rule failure an evaluator returns carries the ID of the rule
\* that returned it, whatever the path it was returned on.
FailureNamesItsRule ==
    /\ (r0006Call # Nil /\ r0006Call.res # Nil) => r0006Call.res.RuleID = R0006ID
    /\ (r1003Call # Nil /\ r1003Call.res # Nil) => r1003Call.res.RuleID = R1003ID
    /\ (r1002Call # Nil /\ r1002Call.res # Nil) =>
          /\ "RuleID" \in DOMAIN r1002Call.res
          /\ r1002Call.res.RuleID = R1002ID

\* C27: after an add or modify event of a profile whose point read succeeded,
\* slugToAppProfile holds, under the profile's slug, the full object of the
\* storage, and GetApplicationProfile returns it.
ProfileEventStoresFullObject ==
    (/\ cacheEvent # Nil
     /\ cacheEvent.obj.Kind = "ApplicationProfile"
     /\ cacheEvent.handler \in {"AddHandler", "ModifyHandler"}
     /\ cacheEvent.read = "ok")
    => /\ Has(slugToAppProfile, UnstructuredUniqueName(cacheEvent.obj))
       /\ GetApplicationProfile(cacheEvent.obj.Namespace, cacheEvent.obj.Name)
            = FullProfile(cacheEvent.obj.Namespace, cacheEvent.obj.Name)

\* C28: a watch event of a profile (add, modify, delete) leaves podToSlug as it
\* was, an add or modify event of a profile leaves the entries of
\* slugToAppProfile under the other slugs as they were, and a modify event of
\* a pod leaves all four maps as they were.
ProfileEventsKeepPodToSlug ==
    [][(cacheEvent' # Nil /\ cacheLookup' = Nil) =>
          LET obj == cacheEvent'.obj
              others == (DOMAIN slugToAppProfile \cup DOMAIN slugToAppProfile')
                            \ {UnstructuredUniqueName(obj)}
          IN
          /\ obj.Kind = "ApplicationProfile" => podToSlug' = podToSlug
          /\ (obj.Kind = "ApplicationProfile" /\ cacheEvent'.handler # "DeleteHandler") =>
                \A slug \in others :
                    /\ Has(slugToAppProfile, slug) /\ Has(slugToAppProfile', slug)
                    /\ slugToAppProfile'[slug] = slugToAppProfile[slug]
          /\ (obj.Kind = "Pod" /\ cacheEvent'.handler = "ModifyHandler") =>
                UNCHANGED <<podToSlug, slugToAppProfile, slugToPods, allProfiles>>]_vars

\* A profile was added, its point read succeeding, while two pods of its slug
\* were cached, and both pods are still in podToSlug.
ProfileEventWitness ==
    /\ cacheEvent # Nil
    /\ cacheEvent.obj.Kind = "ApplicationProfile"
    /\ cacheEvent.handler = "AddHandler"
    /\ cacheEvent.read = "ok"
    /\ Cardinality(PodsOfSlug(UnstructuredUniqueName(cacheEvent.obj))) = 2

\* C29: allProfiles holds exactly the slugs of the profiles that exist in the
\* cluster: those the watch added or modified and did not delete since.
AllProfilesTracksCluster ==
    allProfiles = clusterProfiles

\* C30: once the root context is cancelled, a retry loop (the instance-id loop
\* of a session, waitForContainer of a callback) goes round at most once more.
RetriesStopAfterCancel ==
    /\ \A s \in DOMAIN instanceIDBackoff : instanceIDBackoff[s].afterCancel <= 1
    /\ \A callback \in WaitingCallbacks :
          waiting[callback] # Nil => waiting[callback].backoff.afterCancel <= 1

\* C31: once the root context is cancelled, every session that is live (its
\* startRuleManager has not finished) eventually leaves monitorContainer and
\* finishes its tear-down, whether or not a remove notification comes.
ShutdownSignalsSessions ==
    \A s \in 1..MaxSessions :
        (ctxCancelled /\ Live(s)) ~> (s \in DOMAIN sessions /\ sessions[s].pc = "done")

\* The allowedPorts parameter is a list, not empty, of float64 entries only
WellTypedPorts(param) ==
    /\ param.kind = "list" /\ Len(param.items) > 0
    /\ \A i \in DOMAIN param.items : param.items[i].type = "float64"

\* C32: after SetParameters the allowed ports are the ports of the parameter
\* when it is a list of well-typed ports, and the default [22] when it is
\* missing, not a list, an empty list, or a list with an entry of another type.
AllowedPortsFallBackToDefault ==
    r1003Params # Nil =>
        rule1003.allowedPorts = IF WellTypedPorts(r1003Params)
                                THEN ConvertPorts(r1003Params.items)
                                ELSE <<22>>

\* C33: armed with {pid, ts}, an open event (of an SSH file or not), an event
\* of a type other than open and network, and a network event within 2 s of ts
\* that does not match (another pid, not OUTGOING, not TCP, or an allowed port)
\* return no failure and leave the flag, the pid and ts as they were.
ArmedIgnoresOtherEvents ==
    [][(/\ rule1003.accessRelatedFiles
        /\ r1003Call' # Nil /\ r1003Params' = Nil
        /\ LET eventType == r1003Call'.eventType
               event == r1003Call'.event
           IN \/ eventType = OpenEventType /\ event.kind = "open"
              \/ eventType \notin {OpenEventType, NetworkEventType}
              \/ /\ eventType = NetworkEventType /\ event.kind = "network"
                 /\ Abs(event.Timestamp - rule1003.configFileAccessTimeStamp)
                      <= MaxTimeDiffInSeconds * TicksPerSecond
                 /\ \/ event.Pid # rule1003.sshInitiatorPid
                    \/ event.PktType # "OUTGOING"
                    \/ event.Proto # "TCP"
                    \/ \E i \in DOMAIN rule1003.allowedPorts :
                          rule1003.allowedPorts[i] = event.Port
        /\ R1003Process(r1003Call'.eventType, r1003Call'.event))
       => (r1003Call'.res = Nil /\ rule1003' = rule1003)]_vars

\* Armed by pid p, the evaluator was handed a network event of p, OUTGOING, TCP,
\* within the window, to a port that is allowed, and is still armed by p
ArmedIgnoresWitness ==
    /\ r1003Call # Nil /\ r1003Call.res = Nil
    /\ r1003Call.eventType = NetworkEventType /\ r1003Call.event.kind = "network"
    /\ rule1003.accessRelatedFiles
    /\ r1003Call.event.Pid = rule1003.sshInitiatorPid
    /\ r1003Call.event.PktType = "OUTGOING" /\ r1003Call.event.Proto = "TCP"
    /\ r1003Call.event.Port = 22
    /\ Abs(r1003Call.event.Timestamp - rule1003.configFileAccessTimeStamp)
         <= MaxTimeDiffInSeconds * TicksPerSecond

\* C36: whenever the evaluator is handed an open of an SSH file by pid p at T
\* and, as its next event, a network event of p, OUTGOING, TCP, to a port that
\* is not allowed, at most 2 s after T, the second call returns a failure,
\* whatever the evaluator was handed before.
DetectionIgnoresHistory ==
    [][(/\ r1003Call # Nil /\ r1003Call' # Nil
        /\ R1003Process(r1003Call'.eventType, r1003Call'.event)
        /\ r1003Call.eventType = OpenEventType /\ r1003Call.event.kind = "open"
        /\ IsSSHConfigFile(r1003Call.event.Path)
        /\ r1003Call'.eventType = NetworkEventType /\ r1003Call'.event.kind = "network"
        /\ r1003Call'.event.Pid = r1003Call.event.Pid
        /\ r1003Call'.event.PktType = "OUTGOING" /\ r1003Call'.event.Proto = "TCP"
        /\ \A i \in DOMAIN rule1003.allowedPorts :
              rule1003.allowedPorts[i] # r1003Call'.event.Port
        /\ r1003Call'.event.Timestamp >= r1003Call.event.Timestamp
        /\ r1003Call'.event.Timestamp - r1003Call.event.Timestamp
             <= MaxTimeDiffInSeconds * TicksPerSecond)
       => r1003Call'.res # Nil]_vars

\* The sessions that monitor or are about to: their startRuleManager has not
\* reached deleteResources
Monitoring(s) ==
    s \in DOMAIN sessions /\ sessions[s].pc \in {"start", "ensureInstanceID", "monitor"}

\* C35: the workload key of every session that is monitoring or about to is in
\* trackedContainers; the tear-down of one session does not take away the key
\* another such session uses.
TrackedSetHoldsLiveKeys ==
    \A s \in 1..MaxSessions : Monitoring(s) => sessions[s].K8sContainerID \in trackedContainers

\* The paths a hardlink event is tested against under the claim: the built-in
\* list and every path an additionalPaths parameter named
SensitivePaths == Elements(SensitiveFiles) \cup r1012Added

\* C34: ProcessEvent returns a failure exactly when the event is a hardlink
\* event under the hardlink event type, its comm is not allow-listed, and its
\* oldPath begins with a built-in sensitive path or with a path an
\* additionalPaths parameter named; and the evaluator's list holds exactly these
\* paths after any number of SetParameters calls.
HardlinkFailsIff ==
    /\ Elements(rule1012.additionalPaths) = SensitivePaths
    /\ (r1012Call # Nil /\ r1012Call.call = "ProcessEvent") =>
          LET event == r1012Call.event IN
          (r1012Call.res # Nil) <=>
              /\ r1012Call.eventType = HardlinkEventType /\ event.kind = "hardlink"
              /\ ~(r1012Call.policy.found /\ event.Comm \in r1012Call.policy.AllowedProcesses)
              /\ \E path \in SensitivePaths : HasPrefix(event.OldPath, path)

\* After two SetParameters calls that named two different paths, a hardlink
\* over a file under the first of them was reported
HardlinkWitness ==
    /\ r1012Call # Nil /\ r1012Call.call = "ProcessEvent" /\ r1012Call.res # Nil
    /\ r1012Call.event.OldPath = "/opt/secret/key"
    /\ rule1012.additionalPaths = SensitiveFiles \o << "/opt/secret", "/srv/keys" >>

HandleContainerStartedReleasesChannel ==
    \A i \in DOMAIN amCallbacks :
        amCallbacks[i].pc = "returned"
        => ~Has(amWatchedContainerChannels, amCallbacks[i].container.ContainerID)

\* C39: a remove notification for a container whose add callback is in
\* monitorContainer leads to the return of that callback, with
\* handleContainerStopped run.
NetRemoveLeadsToReturn ==
    \A i \in 1..MaxAmCallbacks :
        (/\ i \in DOMAIN amCallbacks
         /\ amCallbacks[i].pc = "monitorContainer"
         /\ amCallbacks[i].container.ContainerID \in amRemoved)
        ~> (i \in DOMAIN amCallbacks /\ amCallbacks[i].pc = "returned")

\* C40: with no SaveNetworkEvent call in progress, the list stored under the
\* key of a saved event holds that event; and what handleNetworkEvents reads
\* for a container are the events saved for it.
SavedEventsAreKeptAndRead ==
    /\ (\A task \in AmSaverTasks : amSavers[task] = Nil)
         => \A n \in DOMAIN amSaved :
               \E k \in DOMAIN GetSlice(containerAndPodToEventsMap, amSaved[n].key) :
                   containerAndPodToEventsMap[amSaved[n].key][k] = amSaved[n].event
    /\ \A id \in DOMAIN amRead : amRead[id].events = amRead[id].saved
====
